---------------------------- MODULE Spec2Model ----------------------------
(***************************************************************************)
(* lever-ui-eventbus: the synchronous EventBus (src/src/event-bus.ts), its *)
(* TypeResolver (src/src/utils/type-resolver.ts), DeadEvent and the        *)
(* AsyncEventBus, which hands every delivery to an executor.               *)
(*                                                                         *)
(* The bus is single-threaded.  post() calls user callbacks, which may     *)
(* call back into the bus, so one post is a frame on a call stack and the  *)
(* model steps from callback boundary to callback boundary: everything the *)
(* code does between two callbacks is one action.  Spec is an EventBus,    *)
(* AsyncSpec an AsyncEventBus whose executor queues its tasks, BusSpec     *)
(* either of the two.  PairSpec gives an EventBus and an AsyncEventBus the *)
(* same calls, TwoBusSpec holds two EventBus instances side by side,       *)
(* ResolverSpec is a TypeResolver used on its own, and HandleSpec an       *)
(* EventBus whose callers subscribe and unsubscribe and never post.        *)
(***************************************************************************)
EXTENDS Integers, Sequences, FiniteSets, TLC

(* ---------------------------- bounds ---------------------------------- *)
\* subscribe() calls in one behaviour (Subscription handles ever created)
MaxSubs == 2
\* post() calls by user code that may be on the call stack at once; a handler
\* running that deep calls the bus no more
MaxNest == 2
\* AsyncEventBus: tasks waiting at the executor at once
MaxTasks == 2
\* subscribe() calls on each of two buses held side by side
MaxBusSubs == 1
\* subscribe() calls on a bus whose callers only subscribe and unsubscribe
MaxHandles == 3

(* ------------------------- types and events --------------------------- *)
\* Constructors used as registry keys: Base <- Sub <- GrandChild, the bus's
\* own DeadEvent, and Object, the universal root.
Types == {"GrandChild", "Sub", "Base", "DeadEvent", "Object"}

\* Object.getPrototypeOf(ctor.prototype)?.constructor ?? null
ProtoCtor(ctor) ==
    CASE ctor = "GrandChild" -> "Sub"
      [] ctor = "Sub"        -> "Base"
      [] ctor = "Base"       -> "Object"
      [] ctor = "DeadEvent"  -> "Object"
      [] OTHER               -> "null"

\* callbacks handed to subscribe
Fns == {"f", "g"}

ThisBus == "bus"

NoEvent == [kind |-> "none"]

\* new DeadEvent(source, event); id tells instances apart (object identity)
DeadEvent(id, source, event) ==
    [kind |-> "object", id |-> id, ctor |-> "DeadEvent", source |-> source, event |-> event]

NewObject(id, ctor) ==
    [kind |-> "object", id |-> id, ctor |-> ctor, source |-> "none", event |-> NoEvent]

\* the instances the caller holds carry ids 1, 2, ...; the DeadEvent a post
\* at call depth n creates carries id -n
eGrand == NewObject(1, "GrandChild")
eBase  == NewObject(2, "Base")
ePlain == NewObject(3, "Object")
ePrim  == [kind |-> "primitive", id |-> 4, ctor |-> "null", source |-> "none", event |-> NoEvent]
eNull  == [kind |-> "null", id |-> 5, ctor |-> "null", source |-> "none", event |-> NoEvent]
\* a DeadEvent built by the caller, not by the bus
eDead  == DeadEvent(6, "caller", eBase)

\* what callers post
eUndefined == [kind |-> "undefined", id |-> 7, ctor |-> "null", source |-> "none", event |-> NoEvent]
UserEvents == {eGrand, eBase, ePlain, ePrim, eNull, eUndefined, eDead}

\* The instances the caller keeps and posts again.  The others are
\* temporaries, as in bus.post(new Base('A')): once their post has returned
\* nothing references them, and a WeakMap holds no entry of an unreachable key.
KeptEvents == {eGrand}

\* faulty variant: event === null, which undefined is not
IsStrictlyNull(e) == e.kind = "null"

\* event == null: true of null and of undefined
IsNullish(e) == e.kind \in {"null", "undefined"}

\* faulty variant: only a DeadEvent of this bus counts
IsOwnDeadEvent(e) == e.kind = "object" /\ e.ctor = "DeadEvent" /\ e.source = ThisBus

\* event instanceof DeadEvent
IsDeadEvent(e) == e.kind = "object" /\ e.ctor = "DeadEvent"

(* ------------------------------ state --------------------------------- *)
VARIABLES
    registry,   \* Map<Constructor, Set<HandlerRec>>: sequence of [type, set] entries in key insertion order
    subs,       \* the Subscription objects handed out: subs[r] is the type captured by handle r
    typeCache,  \* TypeResolver.typeCache: set of [event, types] entries, one per cached event instance
    stack,      \* the post() calls in progress, outermost first
    ret,        \* the last call of the bus API that returned, with its value
    live,       \* history: the subscriptions created and not yet removed by unsubscribe, unsubscribeAll or clear
    bus,        \* the class of the bus: "EventBus" or "AsyncEventBus"
    queue,      \* AsyncEventBus: the tasks handed to the executor and not yet started, oldest first
    running,    \* AsyncEventBus: the task the executor is running
    buses       \* several instances side by side: buses[b] is the state of the instance named b

vars == <<registry, subs, typeCache, stack, ret, live, bus, queue, running, buses>>

\* what the methods of an EventBus leave alone: the state of an
\* AsyncEventBus that an EventBus does not have, and other bus instances
asyncVars == <<bus, queue, running, buses>>

(* ----------------------------- the Map -------------------------------- *)
Range(s) == {s[i] : i \in DOMAIN s}

\* registry.has(type)
MapHas(m, type) == \E i \in DOMAIN m : m[i].type = type

\* registry.get(type); only used where the key is present
MapGet(m, type) == m[CHOOSE i \in DOMAIN m : m[i].type = type].set

\* registry.set(type, set): an existing key keeps its place
MapSet(m, type, set) ==
    IF MapHas(m, type)
    THEN [i \in DOMAIN m |-> IF m[i].type = type THEN [type |-> type, set |-> set] ELSE m[i]]
    ELSE Append(m, [type |-> type, set |-> set])

\* faulty variant: deletes nothing
MapDeleteNothing(m, type) == m

\* registry.delete(type)
MapDelete(m, type) == SelectSeq(m, LAMBDA en : en.type # type)

\* faulty variant: removes the oldest record, whichever is asked for
SetDeleteFirst(set, rec) == IF set = <<>> THEN set ELSE Tail(set)

\* set.delete(rec) on an insertion-ordered Set
SetDelete(set, rec) == SelectSeq(set, LAMBDA h : h.rec # rec)

\* faulty variant: a Set of callbacks, not of records
SetAddByFn(set, h) ==
    IF \E i \in DOMAIN set : set[i].fn = h.fn THEN set ELSE Append(set, h)

\* set.add(rec) of a record that is a new object: it goes last
SetAdd(set, h) == Append(set, h)

\* set.size
SetSize(set) == Len(set)

(* ----------------------------- queries -------------------------------- *)
\* this.registry.get(type)?.size ?? 0
getSubscriptionCount(type) ==
    IF MapHas(registry, type) THEN SetSize(MapGet(registry, type)) ELSE 0

\* Array.from(registry.keys()).filter(type => registry.get(type).size > 0)
getActiveEventTypes ==
    LET keys == [i \in DOMAIN registry |-> registry[i].type]
    IN  SelectSeq(keys, LAMBDA type : SetSize(MapGet(registry, type)) > 0)

(* --------------------------- TypeResolver ----------------------------- *)
CacheHas(cache, event) == \E c \in cache : c.event = event
CacheGet(cache, event) == (CHOOSE c \in cache : c.event = event).types

Includes(seq, x) == \E i \in DOMAIN seq : seq[i] = x

\* faulty variant: only the event's own constructor, no walk up the chain
ProtoChainOwn(ctor) ==
    IF ctor = "null" \/ ctor = "Object" THEN <<>> ELSE <<ctor>>

\* faulty variant: the walk does not stop before Object
RECURSIVE ProtoChainWithRoot(_)
ProtoChainWithRoot(ctor) ==
    IF ctor = "null" THEN <<>>
    ELSE <<ctor>> \o ProtoChainWithRoot(ProtoCtor(ctor))

\* the while loop of getTypesFor: the constructors up the prototype chain,
\* stopping before Object
RECURSIVE ProtoChain(_)
ProtoChain(ctor) ==
    IF ctor = "null" \/ ctor = "Object" THEN <<>>
    ELSE <<ctor>> \o ProtoChain(ProtoCtor(ctor))

\* faulty variant: a primitive is taken for an instance of the universal root
getTypesForBoxed(cache, event, hasObjectHandler) ==
    IF event.kind # "object"
    THEN [types |-> IF hasObjectHandler THEN <<"Object">> ELSE <<>>, cache |-> cache,
          list |-> "new"]
    ELSE IF CacheHas(cache, event)
    THEN LET cached == CacheGet(cache, event)
             derive == hasObjectHandler /\ ~Includes(cached, "Object")
         IN  [types |-> IF derive THEN Append(cached, "Object") ELSE cached,
              cache |-> cache,
              list |-> IF derive THEN "new" ELSE "cached"]
    ELSE LET out == ProtoChain(event.ctor) \o (IF hasObjectHandler THEN <<"Object">> ELSE <<>>)
         IN  [types |-> out, cache |-> cache \cup {[event |-> event, types |-> out]},
              list |-> "cached"]

\* faulty variant: a cached list is returned as it is
getTypesForCachedAsIs(cache, event, hasObjectHandler) ==
    IF event.kind # "object" THEN [types |-> <<>>, cache |-> cache, list |-> "new"]
    ELSE IF CacheHas(cache, event)
    THEN [types |-> CacheGet(cache, event), cache |-> cache, list |-> "cached"]
    ELSE LET out == ProtoChain(event.ctor) \o (IF hasObjectHandler THEN <<"Object">> ELSE <<>>)
         IN  [types |-> out, cache |-> cache \cup {[event |-> event, types |-> out]},
              list |-> "cached"]

\* faulty variant: on a hit the universal root is pushed onto the cached list
\* itself
getTypesForPushesOnCached(cache, event, hasObjectHandler) ==
    IF event.kind # "object" THEN [types |-> <<>>, cache |-> cache, list |-> "new"]
    ELSE IF CacheHas(cache, event)
    THEN LET cached == CacheGet(cache, event)
             derive == hasObjectHandler /\ ~Includes(cached, "Object")
             types == IF derive THEN Append(cached, "Object") ELSE cached
         IN  [types |-> types,
              cache |-> {c \in cache : c.event # event} \cup {[event |-> event, types |-> types]},
              list |-> "cached"]
    ELSE LET out == ProtoChain(event.ctor) \o (IF hasObjectHandler THEN <<"Object">> ELSE <<>>)
         IN  [types |-> out, cache |-> cache \cup {[event |-> event, types |-> out]},
              list |-> "cached"]

\* faulty variant: on a hit the universal root is put in front of the cached
\* entries
getTypesForRootFirst(cache, event, hasObjectHandler) ==
    IF event.kind # "object" THEN [types |-> <<>>, cache |-> cache, list |-> "new"]
    ELSE IF CacheHas(cache, event)
    THEN LET cached == CacheGet(cache, event)
             derive == hasObjectHandler /\ ~Includes(cached, "Object")
         IN  [types |-> IF derive THEN <<"Object">> \o cached ELSE cached,
              cache |-> cache,
              list |-> IF derive THEN "new" ELSE "cached"]
    ELSE LET out == ProtoChain(event.ctor) \o (IF hasObjectHandler THEN <<"Object">> ELSE <<>>)
         IN  [types |-> out, cache |-> cache \cup {[event |-> event, types |-> out]},
              list |-> "cached"]

\* faulty variant: on a hit the universal root is appended whenever the flag
\* is set, whether the cached list holds it or not
getTypesForAlwaysAppends(cache, event, hasObjectHandler) ==
    IF event.kind # "object" THEN [types |-> <<>>, cache |-> cache, list |-> "new"]
    ELSE IF CacheHas(cache, event)
    THEN LET cached == CacheGet(cache, event)
         IN  [types |-> IF hasObjectHandler THEN Append(cached, "Object") ELSE cached,
              cache |-> cache,
              list |-> IF hasObjectHandler THEN "new" ELSE "cached"]
    ELSE LET out == ProtoChain(event.ctor) \o (IF hasObjectHandler THEN <<"Object">> ELSE <<>>)
         IN  [types |-> out, cache |-> cache \cup {[event |-> event, types |-> out]},
              list |-> "cached"]

\* TypeResolver.getTypesFor: the resolved list and the cache it leaves.
\* list tells which array object the caller receives: "cached" is the array
\* the cache holds for the event after the call, "new" an array made by this
\* call that the cache does not hold ([] or [...cached, Object]).
getTypesFor(cache, event, hasObjectHandler) ==
    IF event.kind # "object" THEN [types |-> <<>>, cache |-> cache, list |-> "new"]
    ELSE IF CacheHas(cache, event)
    THEN LET cached == CacheGet(cache, event)
             derive == hasObjectHandler /\ ~Includes(cached, "Object")
         IN  [types |-> IF derive THEN Append(cached, "Object") ELSE cached,
              cache |-> cache,
              list |-> IF derive THEN "new" ELSE "cached"]
    ELSE LET out == ProtoChain(event.ctor) \o (IF hasObjectHandler THEN <<"Object">> ELSE <<>>)
         IN  [types |-> out, cache |-> cache \cup {[event |-> event, types |-> out]},
              list |-> "cached"]

(* ----------------------------- inputs --------------------------------- *)
\* the types subscribed to and the events posted on an AsyncEventBus: a
\* class, the universal root and DeadEvent; an instance that is kept, a
\* temporary and null
AsyncTypes == {"Base", "DeadEvent", "Object"}
AsyncEvents == {eGrand, eBase, eNull}

\* the events a handler posts while it runs inside a post
NestedEvents == {eBase, eNull, eUndefined}

\* the arguments the callers pass, by the class of the bus and by the caller
TypeInputs == IF bus = "AsyncEventBus" THEN AsyncTypes ELSE Types
EventInputs ==
    IF bus = "AsyncEventBus" THEN AsyncEvents
    ELSE IF stack # <<>> THEN NestedEvents
    ELSE UserEvents

(* ------------------------------ Init ---------------------------------- *)
NoPost == [pc |-> "none"]
\* ret: op and type name the call, val is what it returned; history: pre is
\* the number of live subscriptions when it was made, post the finished post
Returned(op, type, val, post) ==
    [op |-> op, type |-> type, val |-> val, pre |-> Cardinality(live), post |-> post]
NoRet == [op |-> "none", type |-> "none", val |-> 0, pre |-> 0, post |-> NoPost]

NoTask == [pc |-> "none"]

\* no bus instances besides the one the other variables hold
NoBuses == <<>>

\* new EventBus(exceptionHandler)
Init ==
    /\ registry = <<>>
    /\ subs = <<>>
    /\ typeCache = {}
    /\ stack = <<>>
    /\ ret = NoRet
    /\ live = {}
    /\ bus = "EventBus"
    /\ queue = <<>>
    /\ running = NoTask
    /\ buses = NoBuses

\* posts by user code on the call stack
NestCount(stk) == Cardinality({i \in DOMAIN stk : ~stk[i].byBus})

\* user code runs: the caller when no post is in progress, else the handler
\* that the innermost post is executing
InUserCode == IF stack = <<>> THEN TRUE ELSE stack[Len(stack)].pc = "handler"

\* user code that calls the bus: a handler running MaxNest posts deep only
\* returns or throws
CallsBus == InUserCode /\ NestCount(stack) < MaxNest

(* ---------------------------- subscribe ------------------------------- *)
subscribe(type, fn) ==
    /\ CallsBus
    /\ Len(subs) < MaxSubs
    /\ LET rec == Len(subs) + 1
           set == IF MapHas(registry, type) THEN MapGet(registry, type) ELSE <<>>
       IN  /\ registry' = MapSet(registry, type, SetAdd(set, [rec |-> rec, fn |-> fn]))
           /\ subs' = Append(subs, type)
           /\ live' = live \cup {rec}
           /\ ret' = Returned("subscribe", type, rec, NoPost)
    /\ UNCHANGED <<typeCache, stack>>
    /\ UNCHANGED asyncVars

\* faulty variant: the entry stays when its set becomes empty
UnsubscribeRegistryKeepEmpty(reg, type, rec) ==
    IF ~MapHas(reg, type) THEN reg
    ELSE MapSet(reg, type, SetDelete(MapGet(reg, type), rec))

\* faulty variant: a handle whose record is gone removes the entry of its type
UnsubscribeRegistryStaleDropsType(reg, type, rec) ==
    IF ~MapHas(reg, type) THEN reg
    ELSE LET set == MapGet(reg, type)
             current == SetDelete(set, rec)
         IN  IF SetSize(current) = 0 \/ SetSize(current) = SetSize(set)
             THEN MapDelete(reg, type)
             ELSE MapSet(reg, type, current)

\* the registry after Subscription.unsubscribe of handle (type, rec)
UnsubscribeRegistry(reg, type, rec) ==
    IF ~MapHas(reg, type) THEN reg
    ELSE LET current == SetDelete(MapGet(reg, type), rec)
         IN  IF SetSize(current) = 0 THEN MapDelete(reg, type)
             ELSE MapSet(reg, type, current)

\* Subscription.unsubscribe() of the r-th subscription
unsubscribe(r) ==
    /\ CallsBus
    /\ r \in DOMAIN subs
    /\ registry' = UnsubscribeRegistry(registry, subs[r], r)
    /\ live' = live \ {r}
    /\ ret' = Returned("unsubscribe", subs[r], r, NoPost)
    /\ UNCHANGED <<subs, typeCache, stack>>
    /\ UNCHANGED asyncVars

\* faulty variant: the size is read after the delete
UnsubscribeAllCountAfter(reg, type) ==
    LET after == MapDelete(reg, type)
    IN  IF MapHas(after, type) THEN SetSize(MapGet(after, type)) ELSE 0

\* the value unsubscribeAll returns: set?.size ?? 0, read before the delete
UnsubscribeAllCount(reg, type) ==
    IF MapHas(reg, type) THEN SetSize(MapGet(reg, type)) ELSE 0

unsubscribeAll(type) ==
    /\ CallsBus
    /\ registry' = MapDelete(registry, type)
    /\ live' = {r \in live : subs[r] # type}
    /\ ret' = Returned("unsubscribeAll", type, UnsubscribeAllCount(registry, type), NoPost)
    /\ UNCHANGED <<subs, typeCache, stack>>
    /\ UNCHANGED asyncVars

\* faulty variant: the number of types, not of handlers
SumSizesTypes(m) == Len(m)

\* the loop of clear: total += set.size over registry.values()
RECURSIVE SumSizes(_)
SumSizes(m) == IF m = <<>> THEN 0 ELSE SetSize(Head(m).set) + SumSizes(Tail(m))

\* faulty variant: the WeakMap is kept
clearCacheKeeps(cache) == cache

\* TypeResolver.clearCache
clearCache(cache) == {}

clear ==
    /\ CallsBus
    /\ registry' = <<>>
    /\ typeCache' = clearCache(typeCache)
    /\ live' = {}
    /\ ret' = Returned("clear", "none", SumSizes(registry), NoPost)
    /\ UNCHANGED <<subs, stack>>
    /\ UNCHANGED asyncVars

(* ------------------------------- post --------------------------------- *)
\* A post() in progress.  event, handlersToCall and delivered are the locals
\* of post; next counts the handlers already called; pc is "handler" while a
\* handler runs and "dead" while the post waits for its DeadEvent post.
\* History: types (the resolved list), reg0 (the registry when post was
\* called), calls (the handler invocations made), reports (the calls of the
\* exception handler, each with its context, the subscription it is about and
\* whether it threw), dead (the DeadEvent posts made), byBus (the post was made
\* by the bus itself), live0 (the live subscriptions when post was called).

\* the test at event-bus.ts:190
ShouldPostDeadEvent(delivered, event) == delivered = 0 /\ ~IsDeadEvent(event)

\* faulty variant: the DeadEvent names no source
NewDeadEventNoSource(n, event) == DeadEvent(0 - n, "none", event)

\* new DeadEvent(this, event), made by the post at call depth n
NewDeadEvent(n, event) == DeadEvent(0 - n, ThisBus, event)

\* faulty variant: the handlers that completed, not the handlers targeted
ReturnCompleted(frame) == Len(frame.calls) - Len(frame.reports)

\* return delivered
ReturnValue(frame) == frame.delivered

\* faulty variant: the handlers of the most general type first
RECURSIVE CollectHandlersGeneralFirst(_, _)
CollectHandlersGeneralFirst(reg, types) ==
    IF types = <<>> THEN <<>>
    ELSE LET type == Head(types)
             set == IF MapHas(reg, type) THEN MapGet(reg, type) ELSE <<>>
         IN  CollectHandlersGeneralFirst(reg, Tail(types))
                 \o [i \in 1..Len(set) |-> [fn |-> set[i].fn, type |-> type, rec |-> set[i].rec]]

\* the loop over types at event-bus.ts:176-183
RECURSIVE CollectHandlers(_, _)
CollectHandlers(reg, types) ==
    IF types = <<>> THEN <<>>
    ELSE LET type == Head(types)
             set == IF MapHas(reg, type) THEN MapGet(reg, type) ELSE <<>>
         IN  [i \in 1..Len(set) |-> [fn |-> set[i].fn, type |-> type, rec |-> set[i].rec]]
                 \o CollectHandlers(reg, Tail(types))

\* post up to the delivery loop: resolve, collect, count
EnterPost(reg, cache, event, byBus, lv) ==
    LET r == getTypesFor(cache, event, MapHas(reg, "Object"))
        h == CollectHandlers(reg, r.types)
    IN  [frame |-> [event |-> event, types |-> r.types, handlersToCall |-> h,
                    delivered |-> Len(h), next |-> 0, pc |-> "deliver",
                    reg0 |-> reg, calls |-> <<>>, reports |-> <<>>, dead |-> <<>>,
                    byBus |-> byBus, live0 |-> lv],
         cache |-> r.cache]

\* post(null): returns 0 at once
NullPost(event) ==
    [event |-> event, types |-> <<>>, handlersToCall |-> <<>>, delivered |-> 0,
     next |-> 0, pc |-> "returned", reg0 |-> <<>>, calls |-> <<>>, reports |-> <<>>,
     dead |-> <<>>, byBus |-> FALSE, live0 |-> {}]

\* faulty variant: the delivery loop keeps its position in a field of the bus
\* that all posts in progress share, so a post that returns into a handler
\* leaves the loop of the post that called that handler at its end
RECURSIVE ReturnFromPostSharedLoop(_, _, _)
ReturnFromPostSharedLoop(stk, cache, lv) ==
    LET n == Len(stk)
        top == stk[n]
        final == [top EXCEPT !.pc = "returned"]
        rest == SubSeq(stk, 1, n - 1)
        cache2 == IF top.event \in KeptEvents \/ \E i \in DOMAIN rest : rest[i].event = top.event
                  THEN cache
                  ELSE {c \in cache : c.event # top.event}
    IN  IF n > 1 /\ stk[n - 1].pc = "dead"
        THEN ReturnFromPostSharedLoop([rest EXCEPT ![n - 1].dead = Append(@, final)], cache2, lv)
        ELSE [stack |-> [i \in DOMAIN rest |->
                            [rest[i] EXCEPT !.next = Len(rest[i].handlersToCall)]],
              cache |-> cache2,
              ret |-> [op |-> "post", type |-> "none", val |-> ReturnValue(top),
                       pre |-> Cardinality(top.live0), post |-> final]]

\* post returns: its frame is popped, and so is the frame of the post that
\* was waiting for it at `this.post(new DeadEvent(...))`.  An event that
\* nobody references any more (a temporary, the DeadEvent the bus created)
\* has no WeakMap entry any more.
RECURSIVE ReturnFromPost(_, _, _)
ReturnFromPost(stk, cache, lv) ==
    LET n == Len(stk)
        top == stk[n]
        final == [top EXCEPT !.pc = "returned"]
        rest == SubSeq(stk, 1, n - 1)
        cache2 == IF top.event \in KeptEvents \/ \E i \in DOMAIN rest : rest[i].event = top.event
                  THEN cache
                  ELSE {c \in cache : c.event # top.event}
    IN  IF n > 1 /\ stk[n - 1].pc = "dead"
        THEN ReturnFromPost([rest EXCEPT ![n - 1].dead = Append(@, final)], cache2, lv)
        ELSE [stack |-> rest, cache |-> cache2,
              ret |-> [op |-> "post", type |-> "none", val |-> ReturnValue(top),
                       pre |-> Cardinality(top.live0), post |-> final]]

\* faulty variant: the loop skips a handler that is no longer subscribed
RECURSIVE RunPostLive(_, _, _, _)
RunPostLive(reg, stk, cache, lv) ==
    LET n == Len(stk)
        top == stk[n]
    IN  IF top.next < Len(top.handlersToCall)
        THEN LET h == top.handlersToCall[top.next + 1]
                 call == [rec |-> h.rec, fn |-> h.fn, type |-> h.type, event |-> top.event,
                          outcome |-> "running"]
             IN  IF h.rec \notin lv
                 THEN RunPostLive(reg, [stk EXCEPT ![n].next = @ + 1], cache, lv)
                 ELSE [stack |-> [stk EXCEPT ![n] = [top EXCEPT !.next = @ + 1, !.pc = "handler",
                                                                !.calls = Append(@, call)]],
                       cache |-> cache, ret |-> NoRet]
        ELSE IF ShouldPostDeadEvent(top.delivered, top.event)
        THEN LET e == EnterPost(reg, cache, NewDeadEvent(n, top.event), TRUE, lv)
             IN  RunPostLive(reg, Append([stk EXCEPT ![n].pc = "dead"], e.frame), e.cache, lv)
        ELSE ReturnFromPost(stk, cache, lv)

\* faulty variant: the DeadEvent post is started and not waited for
RECURSIVE RunPostDeadNotAwaited(_, _, _, _)
RunPostDeadNotAwaited(reg, stk, cache, lv) ==
    LET n == Len(stk)
        top == stk[n]
    IN  IF top.next < Len(top.handlersToCall)
        THEN LET h == top.handlersToCall[top.next + 1]
                 call == [rec |-> h.rec, fn |-> h.fn, type |-> h.type, event |-> top.event,
                          outcome |-> "running"]
             IN  [stack |-> [stk EXCEPT ![n] = [top EXCEPT !.next = @ + 1, !.pc = "handler",
                                                           !.calls = Append(@, call)]],
                  cache |-> cache, ret |-> NoRet]
        ELSE IF ShouldPostDeadEvent(top.delivered, top.event)
        THEN LET e == EnterPost(reg, cache, NewDeadEvent(n, top.event), TRUE, lv)
             IN  ReturnFromPost([stk EXCEPT ![n].dead = <<e.frame>>], e.cache, lv)
        ELSE ReturnFromPost(stk, cache, lv)

\* post from the delivery loop on, up to the next call of a handler or to
\* the return of the outermost post that no handler is running in
RECURSIVE RunPost(_, _, _, _)
RunPost(reg, stk, cache, lv) ==
    LET n == Len(stk)
        top == stk[n]
    IN  IF top.next < Len(top.handlersToCall)
        THEN \* deliver(handler.fn, handler.type, event): fn(event)
             LET h == top.handlersToCall[top.next + 1]
                 call == [rec |-> h.rec, fn |-> h.fn, type |-> h.type, event |-> top.event,
                         outcome |-> "running"]
             IN  [stack |-> [stk EXCEPT ![n] = [top EXCEPT !.next = @ + 1, !.pc = "handler",
                                                           !.calls = Append(@, call)]],
                  cache |-> cache, ret |-> NoRet]
        ELSE IF ShouldPostDeadEvent(top.delivered, top.event)
        THEN \* this.post(new DeadEvent(this, event))
             LET e == EnterPost(reg, cache, NewDeadEvent(n, top.event), TRUE, lv)
             IN  RunPost(reg, Append([stk EXCEPT ![n].pc = "dead"], e.frame), e.cache, lv)
        ELSE ReturnFromPost(stk, cache, lv)

\* faulty variant: the lookup of the event's class leaves an empty handler
\* set in the registry when the class has none
postEntersOwnType(event) ==
    /\ bus = "EventBus"
    /\ CallsBus
    /\ IF IsNullish(event)
       THEN /\ ret' = Returned("post", "none", 0, NullPost(event))
            /\ UNCHANGED <<typeCache, stack, registry>>
       ELSE LET e == EnterPost(registry, typeCache, event, FALSE, live)
                r == RunPost(registry, Append(stack, e.frame), e.cache, live)
            IN  /\ stack' = r.stack
                /\ typeCache' = r.cache
                /\ ret' = r.ret
                /\ registry' = IF event.kind = "object" /\ ~MapHas(registry, event.ctor)
                               THEN MapSet(registry, event.ctor, <<>>)
                               ELSE registry
    /\ UNCHANGED <<subs, live>>
    /\ UNCHANGED asyncVars

post(event) ==
    /\ bus = "EventBus"
    /\ CallsBus
    /\ IF IsNullish(event)
       THEN /\ ret' = Returned("post", "none", 0, NullPost(event))
            /\ UNCHANGED <<typeCache, stack>>
       ELSE LET e == EnterPost(registry, typeCache, event, FALSE, live)
                r == RunPost(registry, Append(stack, e.frame), e.cache, live)
            IN  /\ stack' = r.stack
                /\ typeCache' = r.cache
                /\ ret' = r.ret
    /\ UNCHANGED <<registry, subs, live>>
    /\ UNCHANGED asyncVars

\* the running handler returns: deliver returns, the loop goes on
handlerReturn ==
    /\ stack # <<>>
    /\ stack[Len(stack)].pc = "handler"
    /\ LET n == Len(stack)
           done == [stack EXCEPT ![n].pc = "deliver",
                                 ![n].calls[stack[n].next].outcome = "returned"]
           r == RunPost(registry, done, typeCache, live)
       IN  /\ stack' = r.stack
           /\ typeCache' = r.cache
           /\ ret' = r.ret
    /\ UNCHANGED <<registry, subs, live>>
    /\ UNCHANGED asyncVars

\* faulty variant: eventType is the class of the event
ExceptionContextOwnType(fn, type, event) ==
    [event |-> event, eventType |-> event.ctor, handler |-> fn, eventBus |-> ThisBus]

\* the context deliver(fn, type, event) hands to the exception handler
ExceptionContext(fn, type, event) ==
    [event |-> event, eventType |-> type, handler |-> fn, eventBus |-> ThisBus]

\* faulty variant: post ends in `finally { return delivered }`, which drops
\* the exception and returns the count
RECURSIVE PropagateFromPostReturnsCount(_, _)
PropagateFromPostReturnsCount(stk, cache) ==
    LET n == Len(stk)
        top == stk[n]
        final == [top EXCEPT !.pc = "returned"]
        rest == SubSeq(stk, 1, n - 1)
        cache2 == IF top.event \in KeptEvents \/ \E i \in DOMAIN rest : rest[i].event = top.event
                  THEN cache
                  ELSE {c \in cache : c.event # top.event}
    IN  IF n > 1 /\ stk[n - 1].pc = "dead"
        THEN PropagateFromPostReturnsCount([rest EXCEPT ![n - 1].dead = Append(@, final)], cache2)
        ELSE [stack |-> rest, cache |-> cache2,
              ret |-> [op |-> "post", type |-> "none", val |-> ReturnValue(top),
                       pre |-> Cardinality(top.live0), post |-> final]]

\* the exception handler throws: nothing catches it in deliver or in post, so
\* the post is abandoned, and so is the post that was waiting for it at
\* `this.post(new DeadEvent(...))`; the exception arrives in the user code
\* that called post
RECURSIVE PropagateFromPost(_, _)
PropagateFromPost(stk, cache) ==
    LET n == Len(stk)
        top == stk[n]
        final == [top EXCEPT !.pc = "thrown"]
        rest == SubSeq(stk, 1, n - 1)
        cache2 == IF top.event \in KeptEvents \/ \E i \in DOMAIN rest : rest[i].event = top.event
                  THEN cache
                  ELSE {c \in cache : c.event # top.event}
    IN  IF n > 1 /\ stk[n - 1].pc = "dead"
        THEN PropagateFromPost([rest EXCEPT ![n - 1].dead = Append(@, final)], cache2)
        ELSE [stack |-> rest, cache |-> cache2,
              ret |-> [op |-> "postThrew", type |-> "none", val |-> 0,
                       pre |-> Cardinality(top.live0), post |-> final]]

\* faulty variant: one try around the whole delivery loop, so the first
\* failure ends the loop
AfterCatchLoopEnds(reg, stk, cache, lv, reporterThrows) ==
    IF reporterThrows
    THEN PropagateFromPost(stk, cache)
    ELSE RunPost(reg, [stk EXCEPT ![Len(stk)].next = Len(stk[Len(stk)].handlersToCall)],
                 cache, lv)

\* faulty variant: the catch block reports and throws the error again
AfterCatchRethrows(reg, stk, cache, lv, reporterThrows) ==
    PropagateFromPost(stk, cache)

\* faulty variant: a failure of the exception handler is swallowed
AfterCatchSwallows(reg, stk, cache, lv, reporterThrows) ==
    RunPost(reg, stk, cache, lv)

\* after the catch block of deliver: the exception handler threw and the
\* exception leaves post, or it returned and the delivery loop goes on
AfterCatch(reg, stk, cache, lv, reporterThrows) ==
    IF reporterThrows
    THEN PropagateFromPost(stk, cache)
    ELSE RunPost(reg, stk, cache, lv)

\* the running handler throws: deliver catches and calls the exception
\* handler with the context; when that returns the loop goes on, when it
\* throws (a custom exception handler can) the exception leaves post
handlerThrow(reporterThrows) ==
    /\ stack # <<>>
    /\ stack[Len(stack)].pc = "handler"
    /\ LET n == Len(stack)
           h == stack[n].handlersToCall[stack[n].next]
           report == [ctx |-> ExceptionContext(h.fn, h.type, stack[n].event),
                      rec |-> h.rec, threw |-> reporterThrows]
           reported == [stack EXCEPT ![n].pc = "deliver",
                                     ![n].calls[stack[n].next].outcome = "threw",
                                     ![n].reports = Append(@, report)]
           r == AfterCatch(registry, reported, typeCache, live, reporterThrows)
       IN  /\ stack' = r.stack
           /\ typeCache' = r.cache
           /\ ret' = r.ret
    /\ UNCHANGED <<registry, subs, live>>
    /\ UNCHANGED asyncVars

Next ==
    \/ \E type \in TypeInputs, fn \in Fns : subscribe(type, fn)
    \/ \E r \in DOMAIN subs : unsubscribe(r)
    \/ \E type \in TypeInputs : unsubscribeAll(type)
    \/ clear
    \/ \E event \in EventInputs : post(event)
    \/ handlerReturn
    \/ \E reporterThrows \in BOOLEAN : handlerThrow(reporterThrows)

Spec == Init /\ [][Next]_vars

(* --------------------------- AsyncEventBus ---------------------------- *)
\* new AsyncEventBus(executor, exceptionHandler), the executor queueing its
\* tasks as the default queueMicrotask does
AsyncInit ==
    /\ registry = <<>>
    /\ subs = <<>>
    /\ typeCache = {}
    /\ stack = <<>>
    /\ ret = NoRet
    /\ live = {}
    /\ bus = "AsyncEventBus"
    /\ queue = <<>>
    /\ running = NoTask
    /\ buses = NoBuses

\* faulty variant: the tasks reach the executor last handler first
TasksReversed(frame) ==
    [i \in DOMAIN frame.handlersToCall |->
        LET h == frame.handlersToCall[Len(frame.handlersToCall) + 1 - i]
        IN  [pc |-> "queued", fn |-> h.fn, type |-> h.type, rec |-> h.rec,
             event |-> frame.event]]

\* AsyncEventBus.deliver for each collected handler: the tasks
\* () => super.deliver(fn, type, event) handed to the executor, in order
Tasks(frame) ==
    [i \in DOMAIN frame.handlersToCall |->
        [pc |-> "queued", fn |-> frame.handlersToCall[i].fn,
         type |-> frame.handlersToCall[i].type, rec |-> frame.handlersToCall[i].rec,
         event |-> frame.event]]

\* faulty variant: post hands no task for the last handler it collected
PostToExecutorDropsLast(reg, cache, event, lv) ==
    LET e == EnterPost(reg, cache, event, FALSE, lv)
        f == [e.frame EXCEPT !.pc = "returned", !.next = Len(e.frame.handlersToCall)]
        t == Tasks(f)
    IN  IF ShouldPostDeadEvent(f.delivered, event)
        THEN LET d == EnterPost(reg, e.cache, NewDeadEvent(1, event), TRUE, lv)
                 df == [d.frame EXCEPT !.pc = "returned", !.next = Len(d.frame.handlersToCall)]
             IN  [frame |-> [f EXCEPT !.dead = <<df>>], tasks |-> Tasks(df),
                  cache |-> {c \in d.cache : c.event \in KeptEvents}]
        ELSE [frame |-> f, tasks |-> SubSeq(t, 1, Len(t) - 1),
              cache |-> {c \in e.cache : c.event \in KeptEvents}]

\* faulty variant: the DeadEvent is decided from the handlers that have run
\* when the loop ends, and on this bus none has
PostToExecutorDeadWhenNoneRan(reg, cache, event, lv) ==
    LET e == EnterPost(reg, cache, event, FALSE, lv)
        f == [e.frame EXCEPT !.pc = "returned", !.next = Len(e.frame.handlersToCall)]
    IN  IF ShouldPostDeadEvent(Len(f.calls), event)
        THEN LET d == EnterPost(reg, e.cache, NewDeadEvent(1, event), TRUE, lv)
                 df == [d.frame EXCEPT !.pc = "returned", !.next = Len(d.frame.handlersToCall)]
             IN  [frame |-> [f EXCEPT !.dead = <<df>>], tasks |-> Tasks(f) \o Tasks(df),
                  cache |-> {c \in d.cache : c.event \in KeptEvents}]
        ELSE [frame |-> f, tasks |-> Tasks(f),
              cache |-> {c \in e.cache : c.event \in KeptEvents}]

\* post on an AsyncEventBus: every deliver only hands a task to the
\* executor, so post runs to its return, the DeadEvent post included
PostToExecutor(reg, cache, event, lv) ==
    LET e == EnterPost(reg, cache, event, FALSE, lv)
        f == [e.frame EXCEPT !.pc = "returned", !.next = Len(e.frame.handlersToCall)]
    IN  IF ShouldPostDeadEvent(f.delivered, event)
        THEN LET d == EnterPost(reg, e.cache, NewDeadEvent(1, event), TRUE, lv)
                 df == [d.frame EXCEPT !.pc = "returned", !.next = Len(d.frame.handlersToCall)]
             IN  [frame |-> [f EXCEPT !.dead = <<df>>], tasks |-> Tasks(df),
                  cache |-> {c \in d.cache : c.event \in KeptEvents}]
        ELSE [frame |-> f, tasks |-> Tasks(f),
              cache |-> {c \in e.cache : c.event \in KeptEvents}]

asyncPost(event) ==
    /\ bus = "AsyncEventBus"
    /\ IF IsNullish(event)
       THEN /\ ret' = Returned("post", "none", 0, NullPost(event))
            /\ UNCHANGED <<typeCache, queue>>
       ELSE LET r == PostToExecutor(registry, typeCache, event, live)
            IN  /\ Len(queue) + Len(r.tasks) <= MaxTasks
                /\ queue' = queue \o r.tasks
                /\ typeCache' = r.cache
                /\ ret' = Returned("post", "none", ReturnValue(r.frame), r.frame)
    /\ UNCHANGED <<registry, subs, live, stack, bus, running, buses>>

\* faulty variant: a task looks its subscription up when it starts and is
\* dropped when the subscription has gone
runTaskIfSubscribed ==
    /\ bus = "AsyncEventBus"
    /\ running = NoTask
    /\ queue # <<>>
    /\ running' = IF Head(queue).rec \in live
                  THEN [Head(queue) EXCEPT !.pc = "handler"] ELSE NoTask
    /\ queue' = Tail(queue)
    /\ ret' = NoRet
    /\ UNCHANGED <<registry, subs, typeCache, live, stack, bus, buses>>

\* the executor starts its oldest task: super.deliver calls fn(event)
runTask ==
    /\ bus = "AsyncEventBus"
    /\ running = NoTask
    /\ queue # <<>>
    /\ running' = [Head(queue) EXCEPT !.pc = "handler"]
    /\ queue' = Tail(queue)
    /\ ret' = NoRet
    /\ UNCHANGED <<registry, subs, typeCache, live, stack, bus, buses>>

\* what a finished task leaves in ret: op is "task" when the task returned,
\* "taskThrew" when an exception left it
TaskDone(task, reports) ==
    [op |-> IF \E i \in DOMAIN reports : reports[i].threw THEN "taskThrew" ELSE "task",
     type |-> task.type, val |-> task.rec, pre |-> Cardinality(live),
     post |-> [pc |-> "task", task |-> task, reports |-> reports]]

\* the handler of the running task returns
taskReturn ==
    /\ running # NoTask
    /\ running' = NoTask
    /\ ret' = TaskDone([running EXCEPT !.pc = "returned"], <<>>)
    /\ UNCHANGED <<registry, subs, typeCache, live, stack, bus, queue, buses>>

\* faulty variant: the task swallows what its handler throws
taskThrowUnreported(reporterThrows) ==
    /\ running # NoTask
    /\ ret' = TaskDone([running EXCEPT !.pc = "threw"], <<>>)
    /\ running' = NoTask
    /\ UNCHANGED <<registry, subs, typeCache, live, stack, bus, queue, buses>>

\* faulty variant: an exception that leaves a task ends the executor's run
\* over its queue, and the tasks still waiting are lost
taskThrowDropsQueue(reporterThrows) ==
    /\ running # NoTask
    /\ LET report == [ctx |-> ExceptionContext(running.fn, running.type, running.event),
                      rec |-> running.rec, threw |-> reporterThrows]
       IN  ret' = TaskDone([running EXCEPT !.pc = "threw"], <<report>>)
    /\ running' = NoTask
    /\ queue' = IF reporterThrows THEN <<>> ELSE queue
    /\ UNCHANGED <<registry, subs, typeCache, live, stack, bus, buses>>

\* the handler of the running task throws: super.deliver catches and calls
\* the exception handler; when that throws the exception leaves the task
taskThrow(reporterThrows) ==
    /\ running # NoTask
    /\ LET report == [ctx |-> ExceptionContext(running.fn, running.type, running.event),
                      rec |-> running.rec, threw |-> reporterThrows]
       IN  ret' = TaskDone([running EXCEPT !.pc = "threw"], <<report>>)
    /\ running' = NoTask
    /\ UNCHANGED <<registry, subs, typeCache, live, stack, bus, queue, buses>>

AsyncNext ==
    \/ \E type \in TypeInputs, fn \in Fns : subscribe(type, fn)
    \/ \E r \in DOMAIN subs : unsubscribe(r)
    \/ \E type \in TypeInputs : unsubscribeAll(type)
    \/ clear
    \/ \E event \in EventInputs : asyncPost(event)
    \/ runTask
    \/ taskReturn
    \/ \E reporterThrows \in BOOLEAN : taskThrow(reporterThrows)

AsyncSpec == AsyncInit /\ [][AsyncNext]_vars

(* ---------------------- either class of the bus ----------------------- *)
BusInit == Init \/ AsyncInit

BusNext ==
    \/ \E type \in TypeInputs, fn \in Fns : subscribe(type, fn)
    \/ \E r \in DOMAIN subs : unsubscribe(r)
    \/ \E type \in TypeInputs : unsubscribeAll(type)
    \/ clear
    \/ \E event \in EventInputs : post(event)
    \/ handlerReturn
    \/ \E reporterThrows \in BOOLEAN : handlerThrow(reporterThrows)
    \/ \E event \in EventInputs : asyncPost(event)
    \/ runTask
    \/ taskReturn
    \/ \E reporterThrows \in BOOLEAN : taskThrow(reporterThrows)

BusSpec == BusInit /\ [][BusNext]_vars

(* ------------------------ a bus as a value ---------------------------- *)
\* The fields of one bus instance: registry, subs, live and typeCache as the
\* variables of those names, queue the executor's queue of an AsyncEventBus,
\* handlerThrows whether the exceptionHandler given to the constructor throws.
\* History: ret the last call and its value, posts the frames of the last
\* post (its own and that of the DeadEvent post), did the call a task made.
NoCall == [op |-> "none", type |-> "none", val |-> 0]

\* new EventBus(exceptionHandler), new AsyncEventBus(executor, exceptionHandler)
NewBus(class, handlerThrows) ==
    [class |-> class, handlerThrows |-> handlerThrows, registry |-> <<>>,
     subs |-> <<>>, live |-> {}, typeCache |-> {}, queue |-> <<>>,
     ret |-> NoCall, posts |-> <<>>, did |-> <<>>]

\* the callbacks subscribed here do not call the bus: f returns, g throws
Throws(fn) == fn = "g"

BusSubscribe(b, type, fn) ==
    LET rec == Len(b.subs) + 1
        set == IF MapHas(b.registry, type) THEN MapGet(b.registry, type) ELSE <<>>
    IN  [b EXCEPT !.registry = MapSet(b.registry, type, SetAdd(set, [rec |-> rec, fn |-> fn])),
                  !.subs = Append(b.subs, type),
                  !.live = b.live \cup {rec},
                  !.ret = [op |-> "subscribe", type |-> type, val |-> rec],
                  !.posts = <<>>, !.did = <<>>]

BusUnsubscribe(b, r) ==
    [b EXCEPT !.registry = UnsubscribeRegistry(b.registry, b.subs[r], r),
              !.live = b.live \ {r},
              !.ret = [op |-> "unsubscribe", type |-> b.subs[r], val |-> r],
              !.posts = <<>>, !.did = <<>>]

BusUnsubscribeAll(b, type) ==
    [b EXCEPT !.registry = MapDelete(b.registry, type),
              !.live = {r \in b.live : b.subs[r] # type},
              !.ret = [op |-> "unsubscribeAll", type |-> type,
                       val |-> UnsubscribeAllCount(b.registry, type)],
              !.posts = <<>>, !.did = <<>>]

BusClear(b) ==
    [b EXCEPT !.registry = <<>>,
              !.typeCache = clearCache(b.typeCache),
              !.live = {},
              !.ret = [op |-> "clear", type |-> "none", val |-> SumSizes(b.registry)],
              !.posts = <<>>, !.did = <<>>]

\* the exception context of bus `this`
BusExceptionContext(this, fn, type, event) ==
    [ExceptionContext(fn, type, event) EXCEPT !.eventBus = this]

\* new DeadEvent(this, event) made by bus `this`
BusDeadEvent(this, event) == [NewDeadEvent(1, event) EXCEPT !.source = this]

\* the delivery loop of EventBus.post from frame.next on, deliver inline:
\* each handler is called, what it throws goes to the exception handler,
\* and when that throws the exception leaves the loop
RECURSIVE BusDeliver(_, _, _)
BusDeliver(b, this, frame) ==
    IF frame.next >= Len(frame.handlersToCall) THEN [frame EXCEPT !.pc = "returned"]
    ELSE LET h == frame.handlersToCall[frame.next + 1]
             call == [rec |-> h.rec, fn |-> h.fn, type |-> h.type, event |-> frame.event,
                      outcome |-> IF Throws(h.fn) THEN "threw" ELSE "returned"]
             report == [ctx |-> BusExceptionContext(this, h.fn, h.type, frame.event),
                        rec |-> h.rec, threw |-> b.handlerThrows]
             after == [frame EXCEPT !.next = frame.next + 1,
                                    !.calls = Append(frame.calls, call),
                                    !.reports = IF Throws(h.fn)
                                                THEN Append(frame.reports, report)
                                                ELSE frame.reports]
         IN  IF Throws(h.fn) /\ b.handlerThrows THEN [after EXCEPT !.pc = "thrown"]
             ELSE BusDeliver(b, this, after)

\* what the WeakMap still holds once the caller has dropped its temporaries
KeptCache(cache) == {c \in cache : c.event \in KeptEvents}

\* EventBus.post on bus `this`, run to its end
BusPost(b, this, event) ==
    IF IsNullish(event)
    THEN [b EXCEPT !.ret = [op |-> "post", type |-> "none", val |-> 0],
                   !.posts = <<>>, !.did = <<>>]
    ELSE LET e == EnterPost(b.registry, b.typeCache, event, FALSE, b.live)
             f == BusDeliver(b, this, e.frame)
         IN  IF f.pc = "thrown"
             THEN [b EXCEPT !.typeCache = KeptCache(e.cache),
                            !.ret = [op |-> "postThrew", type |-> "none", val |-> 0],
                            !.posts = <<f>>, !.did = <<>>]
             ELSE IF ShouldPostDeadEvent(f.delivered, event)
             THEN LET d == EnterPost(b.registry, e.cache, BusDeadEvent(this, event), TRUE, b.live)
                      df == BusDeliver(b, this, d.frame)
                  IN  [b EXCEPT !.typeCache = KeptCache(d.cache),
                                !.ret = IF df.pc = "thrown"
                                        THEN [op |-> "postThrew", type |-> "none", val |-> 0]
                                        ELSE [op |-> "post", type |-> "none", val |-> ReturnValue(f)],
                                !.posts = <<f, df>>, !.did = <<>>]
             ELSE [b EXCEPT !.typeCache = KeptCache(e.cache),
                            !.ret = [op |-> "post", type |-> "none", val |-> ReturnValue(f)],
                            !.posts = <<f>>, !.did = <<>>]

\* faulty variant: post returns the number of handlers that have run
BusAsyncPostCountsRun(b, event) ==
    IF IsNullish(event)
    THEN [b EXCEPT !.ret = [op |-> "post", type |-> "none", val |-> 0],
                   !.posts = <<>>, !.did = <<>>]
    ELSE LET r == PostToExecutor(b.registry, b.typeCache, event, b.live)
         IN  [b EXCEPT !.typeCache = r.cache,
                       !.queue = b.queue \o r.tasks,
                       !.ret = [op |-> "post", type |-> "none", val |-> Len(r.frame.calls)],
                       !.posts = <<r.frame>> \o r.frame.dead, !.did = <<>>]

\* post on an AsyncEventBus
BusAsyncPost(b, event) ==
    IF IsNullish(event)
    THEN [b EXCEPT !.ret = [op |-> "post", type |-> "none", val |-> 0],
                   !.posts = <<>>, !.did = <<>>]
    ELSE LET r == PostToExecutor(b.registry, b.typeCache, event, b.live)
         IN  [b EXCEPT !.typeCache = r.cache,
                       !.queue = b.queue \o r.tasks,
                       !.ret = [op |-> "post", type |-> "none", val |-> ReturnValue(r.frame)],
                       !.posts = <<r.frame>> \o r.frame.dead, !.did = <<>>]

\* the executor runs its oldest task to its end: super.deliver(fn, type, event)
BusRunTask(b, this) ==
    LET t == Head(b.queue)
        call == [rec |-> t.rec, fn |-> t.fn, type |-> t.type, event |-> t.event,
                 outcome |-> IF Throws(t.fn) THEN "threw" ELSE "returned"]
        report == [ctx |-> BusExceptionContext(this, t.fn, t.type, t.event),
                   rec |-> t.rec, threw |-> b.handlerThrows]
    IN  [b EXCEPT !.queue = Tail(b.queue),
                  !.ret = [op |-> IF Throws(t.fn) /\ b.handlerThrows THEN "taskThrew" ELSE "task",
                           type |-> t.type, val |-> t.rec],
                  !.posts = <<>>,
                  !.did = <<[call |-> call,
                             report |-> IF Throws(t.fn) THEN <<report>> ELSE <<>>]>>]

(* ---------------- an EventBus and an AsyncEventBus, same calls --------- *)
\* the calls a post made, each with the report it led to
RECURSIVE Invocations(_)
Invocations(frames) ==
    IF frames = <<>> THEN <<>>
    ELSE LET f == Head(frames)
         IN  [i \in DOMAIN f.calls |->
                 [call |-> f.calls[i],
                  report |-> SelectSeq(f.reports, LAMBDA r : r.rec = f.calls[i].rec)]]
             \o Invocations(Tail(frames))

\* buses.sync is an EventBus, buses.deferred an AsyncEventBus whose executor
\* queues, both made with the same exceptionHandler; history: buses.owed are
\* the calls buses.sync has made and buses.deferred has not made yet
PairInit ==
    /\ registry = <<>>
    /\ subs = <<>>
    /\ typeCache = {}
    /\ stack = <<>>
    /\ ret = NoRet
    /\ live = {}
    /\ bus = "none"
    /\ queue = <<>>
    /\ running = NoTask
    /\ \E handlerThrows \in BOOLEAN :
          buses = [sync |-> NewBus("EventBus", handlerThrows),
                   deferred |-> NewBus("AsyncEventBus", handlerThrows),
                   owed |-> <<>>]

\* the variables of the single bus, not used while buses holds the instances
oneBusVars == <<registry, subs, typeCache, stack, ret, live, bus, queue, running>>

pairSubscribe(type, fn) ==
    /\ Len(buses.sync.subs) < MaxSubs
    /\ buses' = [buses EXCEPT !.sync = BusSubscribe(buses.sync, type, fn),
                              !.deferred = BusSubscribe(buses.deferred, type, fn)]
    /\ UNCHANGED oneBusVars

pairUnsubscribe(r) ==
    /\ r \in DOMAIN buses.sync.subs
    /\ r \in DOMAIN buses.deferred.subs
    /\ buses' = [buses EXCEPT !.sync = BusUnsubscribe(buses.sync, r),
                              !.deferred = BusUnsubscribe(buses.deferred, r)]
    /\ UNCHANGED oneBusVars

pairUnsubscribeAll(type) ==
    /\ buses' = [buses EXCEPT !.sync = BusUnsubscribeAll(buses.sync, type),
                              !.deferred = BusUnsubscribeAll(buses.deferred, type)]
    /\ UNCHANGED oneBusVars

pairClear ==
    /\ buses' = [buses EXCEPT !.sync = BusClear(buses.sync),
                              !.deferred = BusClear(buses.deferred)]
    /\ UNCHANGED oneBusVars

pairPost(event) ==
    LET s == BusPost(buses.sync, "sync", event)
        d == BusAsyncPost(buses.deferred, event)
    IN  /\ Len(d.queue) <= MaxTasks
        /\ buses' = [sync |-> s, deferred |-> d,
                     owed |-> buses.owed \o Invocations(s.posts)]
        /\ UNCHANGED oneBusVars

pairRunTask ==
    /\ buses.deferred.queue # <<>>
    /\ buses' = [buses EXCEPT !.deferred = BusRunTask(buses.deferred, ThisBus),
                              !.owed = IF buses.owed = <<>> THEN <<>> ELSE Tail(buses.owed)]
    /\ UNCHANGED oneBusVars

PairNext ==
    \/ \E type \in AsyncTypes, fn \in Fns : pairSubscribe(type, fn)
    \/ \E r \in DOMAIN buses.sync.subs : pairUnsubscribe(r)
    \/ \E type \in AsyncTypes : pairUnsubscribeAll(type)
    \/ pairClear
    \/ \E event \in AsyncEvents : pairPost(event)
    \/ pairRunTask

PairSpec == PairInit /\ [][PairNext]_vars

(* --------------------- two buses side by side ------------------------- *)
\* the instances user code holds, by name, and what it passes to them
BusNames == {"a", "b"}
TwoBusTypes == {"Base", "DeadEvent"}
TwoBusEvents == {eGrand, eBase}

\* const a = new EventBus(); const b = new EventBus()
TwoBusInit ==
    /\ registry = <<>>
    /\ subs = <<>>
    /\ typeCache = {}
    /\ stack = <<>>
    /\ ret = NoRet
    /\ live = {}
    /\ bus = "none"
    /\ queue = <<>>
    /\ running = NoTask
    /\ buses = [x \in BusNames |-> NewBus("EventBus", FALSE)]

\* faulty variant: the type cache is one WeakMap that all instances share
OnBusSharedCache(bs, x, b) ==
    [y \in DOMAIN bs |-> IF y = x THEN b ELSE [bs[y] EXCEPT !.typeCache = b.typeCache]]

\* registry and typeResolver are fields of the instance: a method called on
\* instance x leaves instance x as b and reaches no other instance
OnBus(bs, x, b) == [bs EXCEPT ![x] = b]

twoSubscribe(x, type, fn) ==
    /\ Len(buses[x].subs) < MaxBusSubs
    /\ buses' = OnBus(buses, x, BusSubscribe(buses[x], type, fn))
    /\ UNCHANGED oneBusVars

twoUnsubscribe(x, r) ==
    /\ r \in DOMAIN buses[x].subs
    /\ buses' = OnBus(buses, x, BusUnsubscribe(buses[x], r))
    /\ UNCHANGED oneBusVars

twoUnsubscribeAll(x, type) ==
    /\ buses' = OnBus(buses, x, BusUnsubscribeAll(buses[x], type))
    /\ UNCHANGED oneBusVars

twoClear(x) ==
    /\ buses' = OnBus(buses, x, BusClear(buses[x]))
    /\ UNCHANGED oneBusVars

twoPost(x, event) ==
    /\ buses' = OnBus(buses, x, BusPost(buses[x], x, event))
    /\ UNCHANGED oneBusVars

TwoBusNext ==
    \/ \E x \in BusNames, type \in TwoBusTypes, fn \in Fns : twoSubscribe(x, type, fn)
    \/ \E x \in BusNames : \E r \in DOMAIN buses[x].subs : twoUnsubscribe(x, r)
    \/ \E x \in BusNames, type \in TwoBusTypes : twoUnsubscribeAll(x, type)
    \/ \E x \in BusNames : twoClear(x)
    \/ \E x \in BusNames, event \in TwoBusEvents : twoPost(x, event)

TwoBusSpec == TwoBusInit /\ [][TwoBusNext]_vars

(* ---------------------- a TypeResolver alone -------------------------- *)
\* Object.create(null): an object without a constructor
eNoCtor == NewObject(8, "null")

\* the events its caller resolves and keeps
ResolverEvents == UserEvents \cup {eNoCtor}

\* new TypeResolver()
ResolverInit ==
    /\ registry = <<>>
    /\ subs = <<>>
    /\ typeCache = {}
    /\ stack = <<>>
    /\ ret = NoRet
    /\ live = {}
    /\ bus = "none"
    /\ queue = <<>>
    /\ running = NoTask
    /\ buses = NoBuses

\* resolver.getTypesFor(event, hasObjectHandler); history: ret.post keeps the
\* arguments, the cache as it was before the call and which array was returned
resolve(event, hasObjectHandler) ==
    /\ bus = "none"
    /\ LET r == getTypesFor(typeCache, event, hasObjectHandler)
       IN  /\ typeCache' = r.cache
           /\ ret' = [op |-> "getTypesFor", type |-> "none", val |-> r.types, pre |-> 0,
                      post |-> [pc |-> "resolved", event |-> event,
                                hasObjectHandler |-> hasObjectHandler,
                                cache0 |-> typeCache, list |-> r.list]]
    /\ UNCHANGED <<registry, subs, stack, live, bus, queue, running, buses>>

\* resolver.clearCache()
resolverClearCache ==
    /\ bus = "none"
    /\ typeCache' = clearCache(typeCache)
    /\ ret' = [op |-> "clearCache", type |-> "none", val |-> 0, pre |-> 0, post |-> NoPost]
    /\ UNCHANGED <<registry, subs, stack, live, bus, queue, running, buses>>

ResolverNext ==
    \/ \E event \in ResolverEvents, hasObjectHandler \in BOOLEAN :
          resolve(event, hasObjectHandler)
    \/ resolverClearCache

ResolverSpec == ResolverInit /\ [][ResolverNext]_vars

(* ------------------- subscribing and unsubscribing -------------------- *)
\* the types the callers subscribe to
HandleTypes == {"Base", "Object"}

\* new EventBus(); history: buses.before is the instance as it was before
\* the last call
HandleInit ==
    /\ registry = <<>>
    /\ subs = <<>>
    /\ typeCache = {}
    /\ stack = <<>>
    /\ ret = NoRet
    /\ live = {}
    /\ bus = "none"
    /\ queue = <<>>
    /\ running = NoTask
    /\ buses = [only |-> NewBus("EventBus", FALSE), before |-> NewBus("EventBus", FALSE)]

handleSubscribe(type, fn) ==
    /\ Len(buses.only.subs) < MaxHandles
    /\ buses' = [only |-> BusSubscribe(buses.only, type, fn), before |-> buses.only]
    /\ UNCHANGED oneBusVars

handleUnsubscribe(r) ==
    /\ r \in DOMAIN buses.only.subs
    /\ buses' = [only |-> BusUnsubscribe(buses.only, r), before |-> buses.only]
    /\ UNCHANGED oneBusVars

handleUnsubscribeAll(type) ==
    /\ buses' = [only |-> BusUnsubscribeAll(buses.only, type), before |-> buses.only]
    /\ UNCHANGED oneBusVars

handleClear ==
    /\ buses' = [only |-> BusClear(buses.only), before |-> buses.only]
    /\ UNCHANGED oneBusVars

HandleNext ==
    \/ \E type \in HandleTypes, fn \in Fns : handleSubscribe(type, fn)
    \/ \E r \in DOMAIN buses.only.subs : handleUnsubscribe(r)
    \/ \E type \in HandleTypes : handleUnsubscribeAll(type)
    \/ handleClear

HandleSpec == HandleInit /\ [][HandleNext]_vars

(* ============================ properties ============================== *)
\* the event is a DeadEvent
Dead(e) == e.kind = "object" /\ e.ctor = "DeadEvent"

\* the handler records registered for `type` in registry value reg
HandlersOf(reg, type) == IF MapHas(reg, type) THEN Range(MapGet(reg, type)) ELSE {}

\* every handler record of reg
AllHandlers(reg) == UNION {Range(reg[i].set) : i \in DOMAIN reg}

\* the types a class derives from, directly or transitively (the class
\* hierarchy itself, not the resolver's walk of it)
RECURSIVE Ancestors(_)
Ancestors(ctor) ==
    IF ProtoCtor(ctor) = "null" THEN {}
    ELSE {ProtoCtor(ctor)} \cup Ancestors(ProtoCtor(ctor))

Derives(b, a) == a \in Ancestors(b)

\* how often subscription rec was invoked in the calls of a finished post
TimesCalled(calls, rec) == Cardinality({i \in DOMAIN calls : calls[i].rec = rec})

\* the finished posts a state shows: the one that returned last and the
\* DeadEvent post it made
PostReturned == ret.op = "post" /\ ret.post.event.kind \notin {"null", "undefined"}

\* C1: a non-null event that is not a DeadEvent, posted while no handler is
\* registered for any type of its resolved list: post returns 0, the bus posts
\* exactly one DeadEvent, with event = the posted event and source = this
\* bus, and every DeadEvent handler registered then is called exactly once
\* with it, however many they are.
C1_UnhandledGoesDead ==
    (/\ PostReturned
     /\ ~Dead(ret.post.event)
     /\ \A i \in DOMAIN ret.post.types : HandlersOf(ret.post.reg0, ret.post.types[i]) = {})
    => /\ ret.val = 0
       /\ Len(ret.post.dead) = 1
       /\ LET d == ret.post.dead[1]
          IN  /\ Dead(d.event)
              /\ d.event.event = ret.post.event
              /\ d.event.source = ThisBus
              /\ \A h \in HandlersOf(d.reg0, "DeadEvent") :
                    /\ TimesCalled(d.calls, h.rec) = 1
                    /\ \A k \in DOMAIN d.calls :
                          d.calls[k].rec = h.rec =>
                              d.calls[k].event = d.event /\ d.calls[k].fn = h.fn

C1_Witness ==
    /\ PostReturned
    /\ ret.post.event = eBase
    /\ ret.val = 0
    /\ Len(ret.post.dead) = 1
    /\ Len(ret.post.dead[1].calls) = 2
    /\ \A k \in 1..2 : ret.post.dead[1].calls[k].type = "DeadEvent"

\* the posts in progress and the finished posts a state shows
PostsShown ==
    Range(stack)
        \cup UNION {Range(stack[i].dead) : i \in DOMAIN stack}
        \cup (IF ret.op \in {"post", "postThrew"}
              THEN {ret.post} \cup Range(ret.post.dead) ELSE {})

\* C2: a DeadEvent is never wrapped again: no DeadEvent the bus created has a
\* DeadEvent as its event, and a post of a DeadEvent (by the bus or by the
\* caller) that matches no handler returns 0 and posts nothing further.
C2_DeadEventNeverRewrapped ==
    \A f \in PostsShown :
        /\ f.byBus => Dead(f.event) /\ ~Dead(f.event.event)
        /\ Dead(f.event) => f.dead = <<>> /\ f.pc # "dead"
        /\ (Dead(f.event) /\ f.pc = "returned"
                /\ \A i \in DOMAIN f.types : HandlersOf(f.reg0, f.types[i]) = {})
              => f.calls = <<>> /\ (f = ret.post => ret.val = 0)

\* the caller posted a DeadEvent that nobody handles, while other types have
\* handlers: it was dropped
C2_Witness ==
    /\ PostReturned
    /\ ret.post.event = eDead
    /\ ret.val = 0
    /\ ret.post.dead = <<>>
    /\ registry # <<>>

\* C3: a handler subscribed to A is called exactly once by a post of an
\* instance of B, B = A or B derived from A directly or transitively, and is
\* counted in what post returns; a handler subscribed to a type the event's
\* class neither is nor derives from (so: to B, for a direct instance of A)
\* is not called.
C3_PolymorphicDispatch ==
    (PostReturned /\ ret.post.event.kind = "object") =>
        LET c == ret.post.event.ctor
            matching == {h \in AllHandlers(ret.post.reg0) :
                            \E i \in DOMAIN ret.post.reg0 :
                                /\ h \in Range(ret.post.reg0[i].set)
                                /\ (ret.post.reg0[i].type = c \/ Derives(c, ret.post.reg0[i].type))}
        IN  /\ \A h \in matching : TimesCalled(ret.post.calls, h.rec) = 1
            /\ \A h \in AllHandlers(ret.post.reg0) \ matching : TimesCalled(ret.post.calls, h.rec) = 0
            /\ ret.val = Cardinality(matching)

\* post(new GrandChild) with one handler on Base and one on GrandChild: both
\* are called, post returns 2
C3_Witness ==
    /\ PostReturned
    /\ ret.post.event = eGrand
    /\ ret.val = 2
    /\ {ret.post.calls[k].type : k \in DOMAIN ret.post.calls} = {"GrandChild", "Base"}

\* the sum, over the types of a resolved list, of the handler-set sizes
RECURSIVE SumOver(_, _)
SumOver(reg, types) ==
    IF types = <<>> THEN 0
    ELSE Cardinality(HandlersOf(reg, Head(types))) + SumOver(reg, Tail(types))

\* C4: what post(E) returns, E not null, is the sum over E's resolved types
\* of the handler-set sizes when post was called; the count is fixed before
\* the first handler runs and nothing a handler does changes it.
C4_DeliveredIsSnapshotCount ==
    /\ \A i \in DOMAIN stack :
          stack[i].delivered = SumOver(stack[i].reg0, stack[i].types)
    /\ PostReturned => ret.val = SumOver(ret.post.reg0, ret.post.types)

\* a post returned 2 after its handlers had emptied the registry and one of
\* them had thrown
C4_Witness ==
    /\ PostReturned
    /\ ret.val = 2
    /\ registry = <<>>
    /\ Len(ret.post.reports) = 1

\* how specific a type is: the number of types it derives from
Depth(type) == Cardinality(Ancestors(type))

\* C5: within one post the handlers are called type-major, the event's own
\* type first, then its ancestors from the most specific to the most general,
\* the universal root last; within a type in subscription order; every call
\* gets the posted event.
C5_SnapshotOrder ==
    \A f \in PostsShown :
        /\ \A k \in DOMAIN f.calls : f.calls[k].event = f.event
        /\ \A k \in DOMAIN f.calls : \A m \in DOMAIN f.calls :
              k < m =>
                  \/ Depth(f.calls[k].type) > Depth(f.calls[m].type)
                  \/ f.calls[k].type = f.calls[m].type /\ f.calls[k].rec < f.calls[m].rec
        /\ f.event.kind = "object" =>
              \A k \in DOMAIN f.calls :
                  f.calls[k].type = f.event.ctor \/ Derives(f.event.ctor, f.calls[k].type)

\* the root handler was subscribed first and is called last
C5_Witness ==
    /\ PostReturned
    /\ ret.post.event = eGrand
    /\ Len(ret.post.calls) = 2
    /\ ret.post.calls[1].type = "Sub" /\ ret.post.calls[1].rec = 2
    /\ ret.post.calls[2].type = "Object" /\ ret.post.calls[2].rec = 1

\* the subscriptions of `type` among the live ones lv
LiveOf(lv, type) == {r \in lv : subs[r] = type}

\* how many records of a handler set carry callback fn
CountFn(set, fn) == Cardinality({i \in DOMAIN set : set[i].fn = fn})

\* C6: two subscriptions of one callback to T are two subscriptions: T's
\* handler set holds one record per live subscription, a post calls the
\* callback once per record (twice, returning 2, while both are live; once
\* after one was unsubscribed; not at all after both were).
C6_SameCallbackTwice ==
    PostReturned =>
        \A i \in DOMAIN ret.post.types :
            LET type == ret.post.types[i]
                set == IF MapHas(ret.post.reg0, type) THEN MapGet(ret.post.reg0, type) ELSE <<>>
            IN  /\ Len(set) = Cardinality(LiveOf(ret.post.live0, type))
                /\ {set[k].rec : k \in DOMAIN set} = LiveOf(ret.post.live0, type)
                /\ \A fn \in Fns :
                      Cardinality({k \in DOMAIN ret.post.calls :
                                      ret.post.calls[k].fn = fn /\ ret.post.calls[k].type = type})
                          = CountFn(set, fn)

\* one callback, subscribed twice to Base, was called twice by one post
C6_Witness ==
    /\ PostReturned
    /\ ret.post.event = eBase
    /\ ret.val = 2
    /\ Len(ret.post.calls) = 2
    /\ ret.post.calls[1].fn = ret.post.calls[2].fn
    /\ ret.post.calls[1].type = "Base" /\ ret.post.calls[2].type = "Base"
    /\ ret.post.calls[1].rec # ret.post.calls[2].rec

\* C7: unsubscribe on a Subscription that is no longer live (unsubscribed
\* before, or removed by unsubscribeAll or clear) changes nothing.
C7_UnsubscribeIdempotent ==
    [][(ret'.op = "unsubscribe" /\ ret'.val \notin live)
          => /\ registry' = registry
             /\ live' = live
             /\ typeCache' = typeCache
             /\ stack' = stack
             /\ subs' = subs]_vars

\* unsubscribe was called on a Subscription that was not live while its type
\* has another live subscription
C7_Witness ==
    /\ ret.op = "unsubscribe"
    /\ ret.val \notin live
    /\ ret.pre = Cardinality(live)
    /\ getSubscriptionCount(ret.type) = 1

\* C8: the registry holds no type with an empty handler set, and
\* getActiveEventTypes lists exactly the types with a live subscription, each
\* once.
C8_NoEmptyEntries ==
    /\ \A i \in DOMAIN registry : registry[i].set # <<>>
    /\ Range(getActiveEventTypes) = {subs[r] : r \in live}
    /\ \A i \in DOMAIN getActiveEventTypes : \A k \in DOMAIN getActiveEventTypes :
          getActiveEventTypes[i] = getActiveEventTypes[k] => i = k

\* the last subscription of one type was unsubscribed, another type is left
C8_Witness ==
    /\ ret.op = "unsubscribe"
    /\ Len(subs) = 2
    /\ subs[1] # subs[2]
    /\ Cardinality(live) = 1
    /\ ret.pre = 2
    /\ Len(getActiveEventTypes) = 1

\* C9: getSubscriptionCount(T) is the number of live subscriptions of T, 0
\* for a type never subscribed.
C9_SubscriptionCount ==
    \A type \in Types : getSubscriptionCount(type) = Cardinality(LiveOf(live, type))

\* two live subscriptions of Base, none of Sub
C9_Witness ==
    /\ getSubscriptionCount("Base") = 2
    /\ getSubscriptionCount("Sub") = 0
    /\ live = {1, 2}

\* the handler set of `type`, empty when the type has no entry
SetOf(reg, type) == IF MapHas(reg, type) THEN MapGet(reg, type) ELSE <<>>

\* C10: unsubscribeAll(T) returns the number of live subscriptions of T; after
\* it getSubscriptionCount(T) is 0, T is not among the active types and the
\* handler sets of the other types are as before; no post calls a handler
\* that was not live when the post was made.
C10_UnsubscribeAll ==
    [][/\ \A T \in Types :
             (ret'.op = "unsubscribeAll" /\ ret'.type = T)
                => /\ ret'.val = Cardinality(LiveOf(live, T))
                   /\ getSubscriptionCount(T)' = 0
                   /\ \A i \in DOMAIN getActiveEventTypes' : getActiveEventTypes'[i] # T
                   /\ \A type \in Types \ {T} : SetOf(registry', type) = SetOf(registry, type)
       /\ \A f \in PostsShown' : \A k \in DOMAIN f.calls : f.calls[k].rec \in f.live0]_vars

\* unsubscribeAll removed the one subscription of its type and left another
\* type's
C10_Witness ==
    /\ ret.op = "unsubscribeAll"
    /\ ret.val = 1
    /\ ret.pre = 2
    /\ Cardinality(live) = 1
    /\ getSubscriptionCount(ret.type) = 0

\* the event is an instance of `type`: of the type itself or of a type
\* derived from it
InstanceOf(e, type) ==
    e.kind = "object" /\ (e.ctor = type \/ Derives(e.ctor, type))

\* what a clear() step returns and leaves
ClearReturnsTotal ==
    ret'.op = "clear" =>
        /\ ret'.val = Cardinality(AllHandlers(registry))
        /\ ret'.val = Cardinality(live)
        /\ (registry = <<>> => ret'.val = 0)
        /\ getActiveEventTypes' = <<>>
        /\ \A type \in Types : getSubscriptionCount(type)' = 0

\* post(E) is called right after clear() returned, E an instance of a type
\* that had a subscription before
PostAfterClear ==
    /\ ret.op = "clear"
    /\ ret'.op = "post"
    /\ ret'.post.event.kind = "object"
    /\ ret'.post.reg0 = <<>>
    /\ \E r \in DOMAIN subs : InstanceOf(ret'.post.event, subs[r])

\* C11 as stated: clear() returns the sum of the handler-set sizes before the
\* call; after it no type is active and every count is 0; a post of an event
\* of any type handled before returns 0 and has a DeadEvent posted.
C11_Original ==
    [][/\ ClearReturnsTotal
       /\ PostAfterClear => ret'.val = 0 /\ Len(ret'.post.dead) = 1]_vars

\* C11, amended: as stated, except that a post of a DeadEvent returns 0 and
\* has nothing posted; the DeadEvent posted for any other event wraps that
\* event and reaches no handler.
C11_ClearRemovesAll ==
    [][/\ ClearReturnsTotal
       /\ PostAfterClear =>
             /\ ret'.val = 0
             /\ ret'.post.calls = <<>>
             /\ IF Dead(ret'.post.event)
                THEN ret'.post.dead = <<>>
                ELSE /\ Len(ret'.post.dead) = 1
                     /\ ret'.post.dead[1].event.event = ret'.post.event
                     /\ ret'.post.dead[1].calls = <<>>]_vars

\* clear() removed two handlers of two types, one of them the universal root
C11_Witness ==
    /\ ret.op = "clear"
    /\ ret.val = 2
    /\ ret.pre = 2
    /\ Len(subs) = 2
    /\ subs[1] = "Object" /\ subs[2] = "Base"
    /\ registry = <<>>
    /\ typeCache = {}

\* C12: post(null) and post(undefined) do nothing, in every state, also
\* inside a handler: they return 0, call no handler (no root handler, no
\* DeadEvent handler), post no DeadEvent, resolve no type, and leave the
\* registry, the type cache and the posts in progress as they were.
C12_NullPostIsNoOp ==
    [][(ret'.op = "post" /\ ret'.post.event \in {eNull, eUndefined})
          => /\ ret'.val = 0
             /\ ret'.post.calls = <<>>
             /\ ret'.post.dead = <<>>
             /\ ret'.post.types = <<>>
             /\ registry' = registry
             /\ typeCache' = typeCache
             /\ stack' = stack
             /\ live' = live]_vars

\* undefined was posted from inside a handler while the universal root and
\* DeadEvent both had a handler
C12_Witness ==
    /\ ret.op = "post"
    /\ ret.post.event = eUndefined
    /\ stack # <<>>
    /\ getSubscriptionCount("Object") = 1
    /\ getSubscriptionCount("DeadEvent") = 1

\* the handler records a post found for its resolved types, in the registry
\* as it was when the post was called
Snapshot(f) == UNION {HandlersOf(f.reg0, f.types[i]) : i \in DOMAIN f.types}

\* the invocations of a post in which the handler threw
Throwing(f) == {k \in DOMAIN f.calls : f.calls[k].outcome = "threw"}

\* the posts that are over: returned to their caller, or left by an exception
Finished(f) == f.pc \in {"returned", "thrown"}

\* the exception handler was called once for each throwing invocation, in
\* the order of the invocations, and for no other
ReportedOncePerThrow(f) ==
    /\ Len(f.reports) = Cardinality(Throwing(f))
    /\ \A i \in DOMAIN f.reports :
          \E k \in Throwing(f) :
              /\ f.reports[i].rec = f.calls[k].rec
              /\ Cardinality({m \in Throwing(f) : m <= k}) = i

\* the exception handler returned normally every time this post, or the
\* DeadEvent post it made, called it
ReporterReturned(f) ==
    /\ \A i \in DOMAIN f.reports : ~f.reports[i].threw
    /\ \A d \in DOMAIN f.dead : \A i \in DOMAIN f.dead[d].reports : ~f.dead[d].reports[i].threw

\* C13 as stated: when a handler of the snapshot throws, every other handler
\* of the snapshot is still called exactly once by the same post, and the
\* exception handler is called once per throwing invocation and for no other.
C13_Original ==
    \A f \in PostsShown :
        (Finished(f) /\ Throwing(f) # {}) =>
            /\ \A h \in Snapshot(f) : TimesCalled(f.calls, h.rec) = 1
            /\ ReportedOncePerThrow(f)

\* C13, amended: the same, provided the exception handler returns normally
\* each time it is called; then the post is not left by an exception either.
\* The count of reports holds in every case.
C13_HandlerFailuresIsolated ==
    \A f \in PostsShown :
        /\ ReportedOncePerThrow(f)
        /\ ReporterReturned(f) => f.pc # "thrown"
        /\ (Finished(f) /\ Throwing(f) # {} /\ ReporterReturned(f)) =>
              \A h \in Snapshot(f) : TimesCalled(f.calls, h.rec) = 1

\* the handler of Sub threw, the handler of Base was still called and
\* returned; one report
C13_Witness ==
    /\ PostReturned
    /\ ret.post.event = eGrand
    /\ Len(ret.post.calls) = 2
    /\ ret.post.calls[1].type = "Sub" /\ ret.post.calls[1].outcome = "threw"
    /\ ret.post.calls[2].type = "Base" /\ ret.post.calls[2].outcome = "returned"
    /\ Len(ret.post.reports) = 1

\* C14: while the exception handler returns normally, no handler exception
\* leaves post: post returns, with the count it would have returned had no
\* handler thrown (the size of its snapshot: a throwing handler counts), so
\* no DeadEvent is posted when every matching handler throws; every later
\* post is delivered in the same way (the property holds of every post of
\* every behaviour).
C14_HandlerExceptionNeverPropagates ==
    /\ \A f \in PostsShown :
          /\ ReporterReturned(f) => f.pc # "thrown"
          /\ (f.pc = "returned" /\ Snapshot(f) # {}) => f.dead = <<>>
          /\ f.pc = "dead" => Snapshot(f) = {}
    /\ PostReturned =>
          /\ ret.val = Cardinality(Snapshot(ret.post))
          /\ ret.val >= Cardinality(Throwing(ret.post))

\* both matching handlers threw: post returned 2 and posted no DeadEvent
C14_Witness ==
    /\ PostReturned
    /\ ret.val = 2
    /\ Cardinality(Throwing(ret.post)) = 2
    /\ Len(ret.post.reports) = 2
    /\ ret.post.dead = <<>>
    /\ ret.post.pc = "returned"

\* the i-th throwing invocation of a post
NthThrowing(f, i) ==
    CHOOSE k \in Throwing(f) : Cardinality({m \in Throwing(f) : m <= k}) = i

\* C15: every report carries {event, eventType, handler, eventBus}: the
\* event that was posted, the type the throwing handler was subscribed to
\* (Base, not Sub, for a handler of Base that throws on a Sub instance), the
\* callback that threw, and this bus.
C15_ExceptionContext ==
    \A f \in PostsShown :
        \A i \in DOMAIN f.reports :
            LET c == f.reports[i].ctx
                call == f.calls[NthThrowing(f, i)]
            IN  /\ DOMAIN c = {"event", "eventType", "handler", "eventBus"}
                /\ c.event = f.event
                /\ c.eventBus = ThisBus
                /\ c.handler = call.fn
                /\ c.eventType = subs[call.rec]

\* the handler g of Base threw on a GrandChild instance after the handler f
\* of Sub had returned: the report names Base and g
C15_Witness ==
    /\ PostReturned
    /\ ret.post.event = eGrand
    /\ Len(ret.post.calls) = 2
    /\ ret.post.calls[1].fn = "f" /\ ret.post.calls[1].outcome = "returned"
    /\ Len(ret.post.reports) = 1
    /\ ret.post.reports[1].ctx.eventType = "Base"
    /\ ret.post.reports[1].ctx.handler = "g"
    /\ subs = <<"Base", "Sub">>

\* the exception handler threw in one of the reports
ReporterThrew(reports) == \E i \in DOMAIN reports : reports[i].threw

\* C16: a failure of the exception handler is not isolated.  EventBus: the
\* exception leaves post (and the post that was waiting for this DeadEvent
\* post): nothing more is called or reported by that post, and its caller
\* gets the exception instead of a count.  AsyncEventBus with a queueing
\* executor: no post is left by an exception and no report is made inside
\* post; the exception leaves the task whose exception handler threw.
C16_ReporterFailurePropagates ==
    /\ \A f \in PostsShown :
          /\ ReporterThrew(f.reports) =>
                /\ f.pc = "thrown"
                /\ f.reports[Len(f.reports)].threw
                /\ \A i \in 1..(Len(f.reports) - 1) : ~f.reports[i].threw
                /\ f.calls[Len(f.calls)].outcome = "threw"
                /\ f.dead = <<>>
          /\ \A d \in DOMAIN f.dead : f.dead[d].pc = "thrown" => f.pc = "thrown"
          /\ f.pc = "thrown" =>
                ReporterThrew(f.reports) \/ \E d \in DOMAIN f.dead : f.dead[d].pc = "thrown"
    /\ \A i \in DOMAIN stack : stack[i].pc # "thrown"
    /\ ret.op = "post" => ret.post.pc = "returned"
    /\ ret.op = "postThrew" =>
          /\ bus = "EventBus"
          /\ ret.post.pc = "thrown"
          /\ ~ret.post.byBus
    /\ bus = "AsyncEventBus" =>
          /\ \A f \in PostsShown : f.pc = "returned" /\ f.reports = <<>> /\ f.calls = <<>>
          /\ ret.op \in {"task", "taskThrew"} =>
                (ret.op = "taskThrew" <=> ReporterThrew(ret.post.reports))

\* AsyncEventBus: the exception handler threw inside the first task of a
\* post; the second task is still waiting at the executor
C16_Witness ==
    /\ bus = "AsyncEventBus"
    /\ ret.op = "taskThrew"
    /\ ret.post.task.event = eGrand
    /\ ReporterThrew(ret.post.reports)
    /\ Len(queue) = 1
    /\ queue[1].event = eGrand

\* what C17 says of a post f made while the universal root had a handler
MatchesRoot(f) ==
    /\ f.delivered >= 1
    /\ f.dead = <<>>
    /\ f.pc # "dead"
    /\ \A h \in HandlersOf(f.reg0, "Object") :
          /\ Cardinality({k \in DOMAIN f.handlersToCall :
                             f.handlersToCall[k].rec = h.rec
                                 /\ f.handlersToCall[k].type = "Object"}) = 1
          /\ f.pc = "returned" =>
                /\ TimesCalled(f.calls, h.rec) = 1
                /\ \A k \in DOMAIN f.calls :
                      f.calls[k].rec = h.rec =>
                          f.calls[k].event = f.event /\ f.calls[k].fn = h.fn
    /\ (ret.op = "post" /\ f = ret.post) => ret.val >= 1

\* C17 as stated: while the universal root has a handler, every non-null
\* event posted matches it: post returns at least 1, the root handler is
\* called with the event, no DeadEvent is posted.
C17_Original ==
    \A f \in PostsShown :
        (f.event.kind \notin {"null", "undefined"} /\ HandlersOf(f.reg0, "Object") # {})
            => MatchesRoot(f)

\* C17, amended: the same of every posted object (class instances, plain
\* objects, DeadEvent instances); a primitive matches nothing.
C17_RootMatchesEveryObject ==
    \A f \in PostsShown :
        (f.event.kind = "object" /\ HandlersOf(f.reg0, "Object") # {})
            => MatchesRoot(f)

\* a DeadEvent made by the caller was delivered to the root handler, the
\* only handler there is
C17_Witness ==
    /\ PostReturned
    /\ ret.post.event = eDead
    /\ ret.val = 1
    /\ Len(ret.post.calls) = 1
    /\ ret.post.calls[1].type = "Object"
    /\ ret.post.calls[1].event = eDead
    /\ ret.post.dead = <<>>

\* C18: a primitive resolves to the empty list and matches no handler, not
\* even a handler of the universal root: its post returns 0 and posts exactly
\* one DeadEvent, wrapping the primitive; that DeadEvent, an object, is what
\* the DeadEvent handlers and the root handlers are called with.
C18_PrimitiveMatchesNothing ==
    \A f \in PostsShown :
        f.event.kind = "primitive" =>
            /\ f.types = <<>>
            /\ f.handlersToCall = <<>>
            /\ f.calls = <<>>
            /\ f.delivered = 0
            /\ (ret.op = "post" /\ f = ret.post) => ret.val = 0
            /\ f.pc = "returned" =>
                  /\ Len(f.dead) = 1
                  /\ Dead(f.dead[1].event)
                  /\ f.dead[1].event.event = f.event
                  /\ f.dead[1].event.source = ThisBus
                  /\ f.dead[1].pc = "returned"
                  /\ \A h \in HandlersOf(f.dead[1].reg0, "DeadEvent")
                                \cup HandlersOf(f.dead[1].reg0, "Object") :
                        /\ TimesCalled(f.dead[1].calls, h.rec) = 1
                        /\ \A k \in DOMAIN f.dead[1].calls :
                              f.dead[1].calls[k].event = f.dead[1].event

\* a primitive was posted while DeadEvent and the universal root each had a
\* handler: both were called with the DeadEvent, the root handler last
C18_Witness ==
    /\ ret.op = "post"
    /\ ret.post.event = ePrim
    /\ ret.val = 0
    /\ Len(ret.post.dead) = 1
    /\ Len(ret.post.dead[1].calls) = 2
    /\ ret.post.dead[1].calls[1].type = "DeadEvent"
    /\ ret.post.dead[1].calls[2].type = "Object"
    /\ ret.post.dead[1].calls[2].event.event = ePrim

RECURSIVE SnapshotSeq(_, _)
SnapshotSeq(reg, types) ==
    IF types = <<>> THEN <<>>
    ELSE SetOf(reg, Head(types)) \o SnapshotSeq(reg, Tail(types))

\* C20: a handler running inside post(E1) may call post(E2).  The nested
\* post takes its snapshot from the registry as it is at that call, runs to
\* its end and returns its own count into the handler; the outer post is
\* untouched by it: it goes on to call each remaining handler of its own
\* snapshot once, in the original order, and returns its original count.
C20_ReentrantPost ==
    /\ \A f \in PostsShown :
          LET snap == SnapshotSeq(f.reg0, f.types)
          IN  /\ Len(f.handlersToCall) = Len(snap)
              /\ \A k \in DOMAIN snap :
                    /\ f.handlersToCall[k].rec = snap[k].rec
                    /\ f.handlersToCall[k].fn = snap[k].fn
              /\ f.delivered = Len(snap)
              /\ Len(f.calls) = (IF f.pc \in {"deliver", "handler", "thrown"}
                                 THEN f.next ELSE Len(snap))
              /\ \A k \in DOMAIN f.calls :
                    f.calls[k].rec = snap[k].rec /\ f.calls[k].event = f.event
    /\ \A i \in DOMAIN stack :
          /\ stack[i].pc \in {"handler", "dead"}
          /\ (i < Len(stack) /\ ~stack[i + 1].byBus) => stack[i].pc = "handler"
    /\ ret.op = "post" =>
          /\ ret.post.pc = "returned"
          /\ ret.val = Len(SnapshotSeq(ret.post.reg0, ret.post.types))
          /\ stack # <<>> => stack[Len(stack)].pc = "handler"

\* the first of the two handlers of post(new GrandChild) removed the second
\* and called post(new Base), which has returned 1 from its own snapshot;
\* the outer post still has its second handler to call
C20_Witness ==
    /\ Len(stack) = 1
    /\ stack[1].event = eGrand
    /\ stack[1].pc = "handler"
    /\ Len(stack[1].handlersToCall) = 2
    /\ stack[1].next = 1
    /\ ret.op = "post"
    /\ ret.post.event = eBase
    /\ ret.val = 1
    /\ Len(ret.post.calls) = 1
    /\ ret.post.live0 # stack[1].live0

\* the handlers a post of `event` reaches in registry value reg: those
\* subscribed to the event's class or to a type it derives from
Matching(reg, event) ==
    IF event.kind # "object" THEN {}
    ELSE {h \in AllHandlers(reg) :
            \E i \in DOMAIN reg :
                /\ h \in Range(reg[i].set)
                /\ (reg[i].type = event.ctor \/ Derives(event.ctor, reg[i].type))}

\* the tasks a step hands to the executor
Handed == SubSeq(queue', Len(queue) + 1, Len(queue'))

\* a step in which post on the AsyncEventBus returns for a non-null event
AsyncPostStep ==
    /\ bus = "AsyncEventBus"
    /\ ret'.op = "post"
    /\ ret'.post.event.kind \notin {"null", "undefined"}

TasksFor(e) == SelectSeq(Handed, LAMBDA t : t.event = e)

\* ts holds one task for each handler that a post of e reaches in reg, made
\* of that handler's callback and the type it was subscribed to
OnePerPair(ts, reg, e) ==
    /\ Len(ts) = Cardinality(Matching(reg, e))
    /\ \A h \in Matching(reg, e) :
          Cardinality({k \in DOMAIN ts :
              ts[k].rec = h.rec /\ ts[k].fn = h.fn /\ ts[k].type = subs[h.rec]}) = 1

\* ts is ordered as the EventBus calls handlers: from the most specific type
\* to the most general, within a type by subscription
InCallOrder(ts) ==
    \A k \in DOMAIN ts : \A m \in DOMAIN ts :
        k < m =>
            \/ Depth(ts[k].type) > Depth(ts[m].type)
            \/ ts[k].type = ts[m].type /\ ts[k].rec < ts[m].rec

\* C22: post on the AsyncEventBus hands the executor exactly one task for
\* each (type, handler) pair of its snapshot, in snapshot order (the
\* DeadEvent post it makes does the same); the executor starts the tasks
\* oldest first, one start per task, each start calling the task's handler
\* with the event that was posted, so the handlers run once each in the
\* order the EventBus calls them.
C22_OneTaskPerPairInOrder ==
    [][bus = "AsyncEventBus" =>
          /\ AsyncPostStep =>
                /\ queue' = queue \o Handed
                /\ \A f \in {ret'.post} \cup Range(ret'.post.dead) :
                      /\ OnePerPair(TasksFor(f.event), registry, f.event)
                      /\ InCallOrder(TasksFor(f.event))
                /\ \A i \in DOMAIN Handed :
                      Handed[i].event \in
                          {f.event : f \in {ret'.post} \cup Range(ret'.post.dead)}
          /\ (running' # running /\ running' # NoTask) =>
                /\ running = NoTask
                /\ queue # <<>>
                /\ running' = [Head(queue) EXCEPT !.pc = "handler"]
                /\ queue' = Tail(queue)
          /\ (running' = running \/ running' = NoTask) =>
                /\ Len(queue') >= Len(queue)
                /\ SubSeq(queue', 1, Len(queue)) = queue
          /\ ret'.op \in {"task", "taskThrew"} =>
                /\ running.pc = "handler"
                /\ running' = NoTask
                /\ ret'.post.task.rec = running.rec
                /\ ret'.post.task.fn = running.fn
                /\ ret'.post.task.event = running.event]_vars

\* post(new GrandChild) with a handler on Object subscribed before one on
\* Base: the Base handler's task has run first, the Object handler's waits
C22_Witness ==
    /\ bus = "AsyncEventBus"
    /\ ret.op = "task"
    /\ ret.type = "Base" /\ ret.val = 2
    /\ ret.post.task.event = eGrand
    /\ Len(queue) = 1
    /\ queue[1].type = "Object" /\ queue[1].rec = 1 /\ queue[1].event = eGrand

\* the step only adds tasks at the end of the queue, or leaves it
QueueGrows == Len(queue') >= Len(queue) /\ SubSeq(queue', 1, Len(queue)) = queue

C24_ReportedInsideTask ==
    bus = "AsyncEventBus" =>
        /\ ret.op = "post" =>
              /\ ret.post.reports = <<>>
              /\ \A i \in DOMAIN ret.post.dead : ret.post.dead[i].reports = <<>>
        /\ \A i \in DOMAIN queue : queue[i].pc = "queued"
        /\ ret.op \in {"task", "taskThrew"} =>
              LET t == ret.post.task
                  r == ret.post.reports
              IN  /\ t.pc \in {"returned", "threw"}
                  /\ t.pc = "returned" => r = <<>>
                  /\ t.pc = "threw" =>
                        /\ Len(r) = 1
                        /\ r[1].rec = t.rec
                        /\ r[1].ctx.event = t.event
                        /\ r[1].ctx.eventType = t.type
                        /\ r[1].ctx.handler = t.fn
                        /\ r[1].ctx.eventBus = ThisBus
        /\ ret.op \notin {"post", "task", "taskThrew"} => ret.post = NoPost

\* the first of the two handlers of post(new Base) has thrown in its task and
\* was reported with the posted event; the second handler's task waits
C24_Witness ==
    /\ bus = "AsyncEventBus"
    /\ ret.op = "task"
    /\ ret.post.task.pc = "threw"
    /\ ret.post.task.event = eBase
    /\ Len(ret.post.reports) = 1
    /\ ret.post.reports[1].ctx.event = eBase
    /\ Len(queue) = 1
    /\ queue[1].event = eBase /\ queue[1].pc = "queued"

\* an event, a call and its report without the identity of the bus
Anon(e) == IF Dead(e) THEN [e EXCEPT !.source = "any"] ELSE e

AnonReports(reports) ==
    [i \in DOMAIN reports |->
        [reports[i] EXCEPT !.ctx.eventBus = "any", !.ctx.event = Anon(reports[i].ctx.event)]]

AnonInvocation(inv) ==
    [call |-> [inv.call EXCEPT !.event = Anon(inv.call.event)],
     report |-> AnonReports(inv.report)]

\* the two buses agree: same registry, same value returned by the call both
\* were given last, and the AsyncEventBus has as many tasks waiting as the
\* EventBus has made calls that it has not
PairAgree ==
    /\ buses.sync.registry = buses.deferred.registry
    /\ buses.sync.live = buses.deferred.live
    /\ buses.deferred.ret.op \notin {"task", "taskThrew"} =>
          buses.sync.ret = buses.deferred.ret
    /\ Len(buses.owed) = Len(buses.deferred.queue)

\* a task run by the AsyncEventBus makes the call the EventBus made at that
\* place, with the same outcome and the same report
PairTaskAgrees ==
    buses'.deferred.did # <<>> =>
        /\ buses.owed # <<>>
        /\ AnonInvocation(buses'.deferred.did[1]) = AnonInvocation(Head(buses.owed))

\* C25 as stated: an EventBus and an AsyncEventBus given the same calls, the
\* callbacks not calling the bus, return the same values, go through the
\* same registries, and the tasks run in submission order make the calls and
\* reports of the EventBus in the same order.
C25_Original ==
    [][PairAgree' /\ PairTaskAgrees]_vars

\* C25: the same, for buses whose exception handler returns.
C25_SameContract ==
    [][~buses.sync.handlerThrows => PairAgree' /\ PairTaskAgrees]_vars

\* both buses were given post(new GrandChild) with a handler on Object that
\* returns and one on Base that throws; the deferred bus has run both
\* tasks, the last one the Object handler's, and owes nothing
C25_Witness ==
    /\ DOMAIN buses = {"sync", "deferred", "owed"}
    /\ ~buses.sync.handlerThrows
    /\ buses.sync.ret = [op |-> "post", type |-> "none", val |-> 2]
    /\ Len(buses.sync.posts) = 1
    /\ Len(buses.sync.posts[1].calls) = 2
    /\ Len(buses.sync.posts[1].reports) = 1
    /\ buses.deferred.ret.op = "task"
    /\ buses.deferred.did # <<>>
    /\ buses.deferred.did[1].call.type = "Object"
    /\ buses.deferred.did[1].call.event = eGrand
    /\ buses.deferred.queue = <<>>
    /\ buses.owed = <<>>

\* every handler of the snapshot of finished post f was called, in order,
\* and has returned, or has thrown and been reported to an exception handler
\* that returned
AllDelivered(f) ==
    LET snap == SnapshotSeq(f.reg0, f.types)
    IN  /\ f.pc = "returned"
        /\ Len(f.calls) = Len(snap)
        /\ \A k \in DOMAIN f.calls :
              /\ f.calls[k].rec = snap[k].rec
              /\ f.calls[k].outcome \in {"returned", "threw"}
              /\ Cardinality({i \in DOMAIN f.reports : f.reports[i].rec = f.calls[k].rec})
                     = (IF f.calls[k].outcome = "threw" THEN 1 ELSE 0)
        /\ \A i \in DOMAIN f.reports : ~f.reports[i].threw

\* C26: post on the EventBus leaves nothing to be done later.  When it
\* returns, every handler of its snapshot has been called and has finished,
\* the DeadEvent post it made (there is one exactly when it returns 0 for an
\* event that is not a DeadEvent) has returned with all its handlers
\* finished too, and control is back in the user code that called post.
C26_PostRunsToCompletion ==
    (bus = "EventBus" /\ PostReturned) =>
        /\ AllDelivered(ret.post)
        /\ \A i \in DOMAIN ret.post.dead : AllDelivered(ret.post.dead[i])
        /\ Len(ret.post.dead) = (IF ret.val = 0 /\ ~Dead(ret.post.event) THEN 1 ELSE 0)
        /\ \A i \in DOMAIN stack : stack[i].pc \in {"handler", "dead"}
        /\ stack # <<>> => stack[Len(stack)].pc = "handler"

\* post(new Base) found no handler; the DeadEvent post called two handlers,
\* the first threw and was reported, the second returned, then post returned
C26_Witness ==
    /\ bus = "EventBus"
    /\ PostReturned
    /\ stack = <<>>
    /\ ret.post.event = eBase
    /\ ret.val = 0
    /\ Len(ret.post.dead) = 1
    /\ Len(ret.post.dead[1].calls) = 2
    /\ ret.post.dead[1].calls[1].outcome = "threw"
    /\ ret.post.dead[1].calls[2].outcome = "returned"
    /\ Len(ret.post.dead[1].reports) = 1

\* the DeadEvent posts in progress: the chain of DeadEvents that the bus has
\* posted within the top-level post call and that have not returned
DeadChain(stk) == Cardinality({i \in DOMAIN stk : stk[i].byBus})

\* C27: within one top-level post the bus posts a bounded number of
\* DeadEvents: at most one while no handler has posted an event, and when a
\* DeadEvent handler posts an event that nobody handles the chain of DeadEvent
\* posts ends by itself, before the posts that handlers may nest are used up.
C27_DeadChainBounded ==
    bus = "EventBus" =>
        /\ NestCount(stack) <= 1 => DeadChain(stack) <= 1
        /\ DeadChain(stack) < MaxNest

\* the step is a call on instance x: the fields or the history of x change
CalledOn(x) == buses'[x] # buses[x]

\* C28: two EventBus instances share nothing.  A call on one (subscribe,
\* unsubscribe, unsubscribeAll, clear, post) leaves the other as it is:
\* registry, type cache, subscriptions and the results of its last delivery;
\* a post on x calls exactly the handlers registered on x for the event, and
\* the DeadEvent it makes has x as its source.
C28_InstancesShareNothing ==
    [][DOMAIN buses = BusNames =>
          \A x \in BusNames :
              CalledOn(x) =>
                  /\ \A y \in BusNames \ {x} : buses'[y] = buses[y]
                  /\ \A i \in DOMAIN buses'[x].posts :
                        LET f == buses'[x].posts[i]
                        IN  /\ f.reg0 = buses[x].registry
                            /\ Len(f.calls) = Cardinality(Matching(buses[x].registry, f.event))
                            /\ \A k \in DOMAIN f.calls :
                                  \E h \in Matching(buses[x].registry, f.event) :
                                      h.rec = f.calls[k].rec /\ h.fn = f.calls[k].fn
                            /\ f.byBus => Dead(f.event) /\ f.event.source = x]_vars

\* bus a has a handler for Base and has cached the kept instance it
\* delivered; bus b, with a DeadEvent handler only, was then given the same
\* instance and wrapped it in a DeadEvent of its own
C28_Witness ==
    /\ DOMAIN buses = BusNames
    /\ buses["a"].ret = [op |-> "post", type |-> "none", val |-> 1]
    /\ Len(buses["a"].posts) = 1
    /\ buses["a"].posts[1].event = eGrand
    /\ buses["a"].posts[1].calls[1].type = "Base"
    /\ buses["b"].ret = [op |-> "post", type |-> "none", val |-> 0]
    /\ Len(buses["b"].posts) = 2
    /\ buses["b"].posts[1].event = eGrand
    /\ buses["b"].posts[2].event.source = "b"
    /\ Len(buses["b"].posts[2].calls) = 1
    /\ buses["a"].registry # buses["b"].registry

\* getTypesFor has just returned for an object
Resolved == ret.op = "getTypesFor" /\ ret.post.event.kind = "object"

\* C29: getTypesFor of an object that is not cached (the cache is empty)
\* returns the object's class, then the classes it derives from, each before
\* the ones it derives from itself, the universal root left out; with the
\* flag the root follows as the one last entry, without the flag it is
\* absent.  A plain object and an object without constructor give the empty
\* list without the flag.
C29_ResolveFresh ==
    (Resolved /\ ret.post.cache0 = {}) =>
        LET c == ret.post.event.ctor
            flag == ret.post.hasObjectHandler
            own == IF flag THEN SubSeq(ret.val, 1, Len(ret.val) - 1) ELSE ret.val
        IN  /\ flag => Len(ret.val) >= 1 /\ ret.val[Len(ret.val)] = "Object"
            /\ \A i \in DOMAIN own : own[i] # "Object"
            /\ {own[i] : i \in DOMAIN own} = ({c} \cup Ancestors(c)) \ {"Object", "null"}
            /\ c \notin {"Object", "null"} => own # <<>> /\ own[1] = c
            /\ \A i \in DOMAIN own : \A j \in DOMAIN own : i < j => Derives(own[i], own[j])
            /\ (c \in {"Object", "null"} /\ ~flag) => ret.val = <<>>

\* a GrandChild instance resolved with the flag on an empty cache
C29_Witness ==
    /\ Resolved
    /\ ret.post.cache0 = {}
    /\ ret.post.event = eGrand
    /\ ret.post.hasObjectHandler
    /\ ret.val = <<"GrandChild", "Sub", "Base", "Object">>

\* C30: whatever calls came before, the list getTypesFor returns for an
\* object holds the universal root exactly when the call's flag is set, and
\* no cached list holds the universal root.
C30_FlagRespectedCacheRootFree ==
    /\ Resolved => (Includes(ret.val, "Object") <=> ret.post.hasObjectHandler)
    /\ \A c \in typeCache : ~Includes(c.types, "Object")

\* C31: a call of getTypesFor that finds the event cached leaves the cache as
\* it was.  When the cached list is free of the universal root (the event was
\* first resolved without the flag), a call with the flag returns a new list,
\* the cached entries followed by the root as last entry, and a call without
\* the flag returns the cached list itself, whatever calls came in between.
C31_CacheHitLeavesEntry ==
    (Resolved /\ CacheHas(ret.post.cache0, ret.post.event)) =>
        LET cached == CacheGet(ret.post.cache0, ret.post.event)
        IN  /\ typeCache = ret.post.cache0
            /\ ~Includes(cached, "Object") =>
                   IF ret.post.hasObjectHandler
                   THEN /\ ret.val = Append(cached, "Object")
                        /\ ret.post.list = "new"
                   ELSE /\ ret.val = cached
                        /\ ret.post.list = "cached"

\* a Base instance cached root-free is resolved with the flag: the root is
\* in the result and not in the cache
C31_Witness ==
    /\ Resolved
    /\ ret.post.event = eBase
    /\ ret.post.hasObjectHandler
    /\ [event |-> eBase, types |-> <<"Base">>] \in ret.post.cache0
    /\ ret.val = <<"Base", "Object">>
    /\ [event |-> eBase, types |-> <<"Base">>] \in typeCache

\* the post that user code begins in this step: its frame is on the stack,
\* or it has returned at once
PostBegun ==
    IF Len(stack') > Len(stack) THEN {stack'[Len(stack) + 1]}
    ELSE IF stack' = stack /\ ret'.op = "post" THEN {ret'.post}
    ELSE {}

\* the type list of an object computed from the object and registry reg
\* alone (the class hierarchy and the presence of a root handler)
FreshTypes(reg, e) ==
    LET c == e.ctor
        chain == IF c \in {"Object", "null"} THEN {} ELSE {c} \cup (Ancestors(c) \ {"Object"})
        n == Cardinality(chain) + (IF MapHas(reg, "Object") THEN 1 ELSE 0)
    IN  CHOOSE l \in [1..n -> Types] :
            /\ \A t \in chain : \E i \in 1..Cardinality(chain) : l[i] = t
            /\ \A i \in 1..Cardinality(chain) : \A j \in 1..Cardinality(chain) :
                   i < j => Derives(l[i], l[j])
            /\ MapHas(reg, "Object") => l[n] = "Object"

\* C32: when clear() returns the type cache holds no entry, also when it is
\* called by a handler of a post in progress; subscribe, unsubscribe and
\* unsubscribeAll put nothing into the cache; so the next post of an instance
\* posted before finds no entry, and a post that finds no entry for its
\* object resolves it anew: to its class and ancestors, most specific first,
\* followed by the universal root exactly when a root handler is registered
\* when that post is made.
C32_ClearInvalidatesCache ==
    [][/\ ret'.op = "clear" => typeCache' = {}
       /\ ret'.op \in {"subscribe", "unsubscribe", "unsubscribeAll"} => typeCache' = typeCache
       /\ \A f \in PostBegun :
              (f.event.kind = "object" /\ ~CacheHas(typeCache, f.event))
                 => f.types = FreshTypes(registry, f.event)]_vars

\* a post of a Base instance resolved it with the universal root; its handler
\* called clear() and then posted the same instance again, which was resolved
\* without the root
C32_Witness ==
    /\ Len(stack) = 1
    /\ stack[1].event = eBase
    /\ stack[1].types = <<"Base", "Object">>
    /\ stack[1].pc = "handler"
    /\ ret.op = "post"
    /\ ret.post.event = eBase
    /\ ret.post.reg0 = <<>>
    /\ ret.post.types = <<"Base">>
    /\ typeCache = {[event |-> eBase, types |-> <<"Base">>]}

\* no entry of the list occurs twice
NoRepeat(l) == \A i \in DOMAIN l : \A j \in DOMAIN l : l[i] = l[j] => i = j

\* C33: the type list a post resolves holds no type twice, whether it comes
\* from the cache or not and whether the cached list holds the universal
\* root or not, and no post invokes a handler record more than once, whichever
\* handlers of the root and of other types are registered.
C33_NoTypeTwiceNoHandlerTwice ==
    \A f \in PostsShown :
        /\ NoRepeat(f.types)
        /\ NoRepeat([i \in DOMAIN f.handlersToCall |-> f.handlersToCall[i].rec])
        /\ \A r \in DOMAIN subs : TimesCalled(f.calls, r) <= 1

\* a Base instance is posted with a Base handler and a root handler
\* registered, so its cached list ends with the root; the Base handler posts
\* the instance again, the root is still wanted, and that post has called
\* each of the two handlers once
C33_Witness ==
    /\ Len(stack) = 1
    /\ stack[1].event = eBase
    /\ stack[1].types = <<"Base", "Object">>
    /\ stack[1].pc = "handler"
    /\ [event |-> eBase, types |-> <<"Base", "Object">>] \in typeCache
    /\ ret.op = "post"
    /\ ret.post.event = eBase
    /\ ret.post.types = <<"Base", "Object">>
    /\ ret.val = 2
    /\ Len(ret.post.calls) = 2
    /\ ret.post.calls[1].type = "Base"
    /\ ret.post.calls[2].type = "Object"

ColdSnapshot(reg, e) == SnapshotSeq(reg, FreshTypes(reg, e))

\* C35: the type cache does not show in what post does.  For every post of
\* an object, whatever the cache held when it was made, the handlers it
\* collects and calls, their order and the count it returns are those of a
\* bus with the same registry and an empty cache, which depend only on the
\* registry at the call and on the object's class and ancestors; and it has a
\* DeadEvent posted exactly when that bus would: when it collects no handler
\* and the object is not a DeadEvent.
C35_CacheTransparent ==
    \A f \in PostsShown :
        f.event.kind = "object" =>
            LET cold == ColdSnapshot(f.reg0, f.event)
            IN  /\ Len(f.handlersToCall) = Len(cold)
                /\ \A k \in DOMAIN cold :
                      /\ f.handlersToCall[k].rec = cold[k].rec
                      /\ f.handlersToCall[k].fn = cold[k].fn
                      /\ f.handlersToCall[k].type = subs[cold[k].rec]
                /\ f.delivered = Len(cold)
                /\ Len(f.calls) <= Len(cold)
                /\ \A k \in DOMAIN f.calls :
                      f.calls[k].rec = cold[k].rec /\ f.calls[k].fn = cold[k].fn
                /\ f.pc = "returned" =>
                      /\ Len(f.calls) = Len(cold)
                      /\ (f.dead # <<>>) <=> (cold = <<>> /\ ~Dead(f.event))
                /\ (f = ret.post /\ ret.op = "post") => ret.val = Len(cold)

\* a Base instance was resolved while a root handler was registered, so its
\* cached list ends with the root; the root handler was unsubscribed and the
\* instance posted again: the list still ends with the root, and the post
\* has called the Base handler and returned 1, as with an empty cache
C35_Witness ==
    /\ ret.op = "post"
    /\ ret.post.event = eBase
    /\ ret.post.types = <<"Base", "Object">>
    /\ FreshTypes(ret.post.reg0, eBase) = <<"Base">>
    /\ ~MapHas(ret.post.reg0, "Object")
    /\ ret.val = 1
    /\ Len(ret.post.calls) = 1
    /\ ret.post.calls[1].type = "Base"
    /\ ret.post.dead = <<>>

\* C36: Subscription.unsubscribe removes its own record and nothing else.
\* After it the handler set of every type holds the records it held before
\* except the record of the handle, in the order they had, so the other
\* records of the handle's type and the sets of all other types are as they
\* were; and a handle whose record is gone already (by unsubscribe,
\* unsubscribeAll or clear) leaves the registry as it is, whatever has been
\* subscribed to its type since.
C36_UnsubscribeRemovesOwnRecord ==
    buses.only.ret.op = "unsubscribe" =>
        LET r == buses.only.ret.val
            was == buses.before.registry
            now == buses.only.registry
        IN  /\ \A type \in Types :
                  LET old == SetOf(was, type)
                      new == SetOf(now, type)
                  IN  /\ Range(new) = {h \in Range(old) : h.rec # r}
                      /\ Len(new) = Cardinality(Range(new))
                      /\ \A i \in DOMAIN new : \A j \in DOMAIN new :
                            i < j => \E k \in DOMAIN old : \E m \in DOMAIN old :
                                        k < m /\ old[k] = new[i] /\ old[m] = new[j]
                      /\ type # buses.only.subs[r] => new = old
            /\ r \notin buses.before.live => now = was
            /\ buses.only.live = buses.before.live \ {r}
            /\ buses.only.subs = buses.before.subs

\* the first handle, whose record was gone, was used after two more
\* subscriptions to its type: both are still registered, in their order
C36_Witness ==
    /\ buses.only.ret = [op |-> "unsubscribe", type |-> "Base", val |-> 1]
    /\ 1 \notin buses.before.live
    /\ buses.only.subs = <<"Base", "Base", "Base">>
    /\ buses.only.live = {2, 3}
    /\ Len(buses.only.registry) = 1
    /\ Len(SetOf(buses.only.registry, "Base")) = 2
    /\ SetOf(buses.only.registry, "Base")[1].rec = 2
    /\ SetOf(buses.only.registry, "Base")[2].rec = 3

\* C37: post does not change the registry.  The registry, the handles and
\* their records change only in a step in which subscribe, unsubscribe,
\* unsubscribeAll or clear is called; the steps of a post (the call up to the
\* first handler, the return or the failure of a handler up to the next one,
\* the DeadEvent post, the return) leave them as they are, so a post whose
\* handlers call none of the four returns with the registry it was called
\* with; a post that calls no handler at all is called and returns in one
\* step.  What a step of a post may change of the bus is the type cache.
C37_PostLeavesRegistry ==
    [][bus = "EventBus" =>
          /\ ret'.op \notin {"subscribe", "unsubscribe", "unsubscribeAll", "clear"} =>
                /\ registry' = registry
                /\ subs' = subs
                /\ live' = live
          /\ (stack' = stack /\ ret'.op = "post" /\ ret'.post.event.kind = "object") =>
                ret'.post.reg0 = registry /\ registry' = registry]_vars

\* post(new GrandChild) with one handler, a DeadEvent handler: the DeadEvent
\* post has called it and the post has returned 0; the registry is the one
\* it was called with, and the cache has got the entry of the event
C37_Witness ==
    /\ stack = <<>>
    /\ ret.op = "post"
    /\ ret.post.event = eGrand
    /\ ret.val = 0
    /\ Len(ret.post.dead) = 1
    /\ Len(ret.post.dead[1].calls) = 1
    /\ Len(subs) = 1
    /\ live = {1}
    /\ registry = ret.post.reg0
    /\ registry # <<>>
    /\ typeCache = {[event |-> eGrand, types |-> <<"GrandChild", "Sub", "Base">>]}

\* C38: EventBus.  When the exception handler throws while it reports the
\* failure of the k-th handler of a post, the post ends there: it has called
\* the first k handlers of its snapshot and no other, it is no longer in
\* progress, so it calls none later, its caller gets the exception and no
\* count, and the step that ends it leaves the registry and the handles as
\* they are and takes from the call stack only that post and the posts that
\* were waiting for it.
C38_ReporterFailureAbortsDelivery ==
    [][bus = "EventBus" =>
          /\ \A f \in PostsShown' :
                ReporterThrew(f.reports) =>
                    LET k == Len(f.calls)
                    IN  /\ k >= 1
                        /\ k <= Len(f.handlersToCall)
                        /\ f.next = k
                        /\ f.reports[Len(f.reports)].threw
                        /\ f.reports[Len(f.reports)].rec = f.handlersToCall[k].rec
                        /\ \A i \in 1..k : f.calls[i].rec = f.handlersToCall[i].rec
                        /\ f.calls[k].outcome = "threw"
                        /\ ret'.op = "postThrew"
                        /\ f \in {ret'.post} \cup Range(ret'.post.dead)
          /\ \A i \in DOMAIN stack' : ~ReporterThrew(stack'[i].reports)
          /\ ret'.op = "postThrew" =>
                /\ registry' = registry
                /\ subs' = subs
                /\ live' = live
                /\ Len(stack') < Len(stack)
                /\ stack' = SubSeq(stack, 1, Len(stack'))
                /\ \A i \in (Len(stack') + 2)..Len(stack) : stack[i].byBus
                /\ stack' # <<>> => stack'[Len(stack')].pc = "handler"]_vars

\* post(new Base) with two Base handlers: the first threw, the exception
\* handler threw, and the post has ended without calling the second
C38_Witness ==
    /\ bus = "EventBus"
    /\ stack = <<>>
    /\ ret.op = "postThrew"
    /\ ret.post.event = eBase
    /\ Len(ret.post.handlersToCall) = 2
    /\ Len(ret.post.calls) = 1
    /\ ret.post.calls[1].outcome = "threw"
    /\ Len(ret.post.reports) = 1
    /\ ret.post.reports[1].threw
    /\ registry = ret.post.reg0
    /\ Len(SetOf(registry, "Base")) = 2
    /\ TimesCalled(ret.post.calls, ret.post.handlersToCall[2].rec) = 0

\* C39: AsyncEventBus whose executor queues.  When the exception handler
\* throws inside a task, the exception leaves that task and nothing else is
\* touched: no post is in progress (the post that handed the task over has
\* returned), the tasks waiting at the executor wait on as they are, the
\* registry and the cache are as before; and the executor goes on with the
\* oldest waiting task, whose handler is called as if nothing had failed, so
\* no task is lost or started a second time.
C39_ReporterFailureStaysInTask ==
    [][bus = "AsyncEventBus" =>
          /\ ret'.op = "taskThrew" =>
                /\ running # NoTask
                /\ running.pc = "handler"
                /\ ret'.post.task = [running EXCEPT !.pc = "threw"]
                /\ Len(ret'.post.reports) = 1
                /\ ret'.post.reports[1].threw
                /\ ret'.post.reports[1].rec = running.rec
                /\ running' = NoTask
                /\ queue' = queue
                /\ \A i \in DOMAIN queue' : queue'[i].pc = "queued"
                /\ stack = <<>> /\ stack' = <<>>
                /\ registry' = registry
                /\ typeCache' = typeCache
                /\ subs' = subs
                /\ live' = live
          /\ ret.op = "taskThrew" =>
                /\ running = NoTask
                /\ running' # NoTask =>
                      /\ queue # <<>>
                      /\ running' = [Head(queue) EXCEPT !.pc = "handler"]
                      /\ queue' = Tail(queue)
                /\ running' = NoTask =>
                      /\ Len(queue') >= Len(queue)
                      /\ SubSeq(queue', 1, Len(queue)) = queue]_vars

\* post(new Base) returned 2 with two Base handlers; the first task's handler
\* threw and the exception handler threw; the second task is waiting, ready
\* to be started
C39_Witness ==
    /\ bus = "AsyncEventBus"
    /\ ret.op = "taskThrew"
    /\ ret.post.task.event = eBase
    /\ ret.post.task.rec = 1
    /\ ret.post.reports[1].threw
    /\ running = NoTask
    /\ Len(queue) = 1
    /\ queue[1].event = eBase
    /\ queue[1].rec = 2
    /\ queue[1].pc = "queued"
    /\ stack = <<>>

=============================================================================
